---- MODULE Spec2Model ----
(***************************************************************************)
(* Model of the healing orchestrator of autoheal-locator-js:               *)
(* AutoHealLocator.findElement / locateElementWithHealing (Selenium),      *)
(* AutoHealLocator.find (Playwright), the execution-strategy escalation    *)
(* performAIHealingWithTokens / tryDOMThenVisual / tryVisualThenDOM, the   *)
(* CachedSelector trust model and the SelectorCache store the orchestrator *)
(* reads and writes.                                                       *)
(*                                                                         *)
(* One resolution is in flight at a time.  Every await of the source is a  *)
(* step; the synchronous code that follows an await belongs to the same    *)
(* step.  What the adapter, the page and the AI service answer is chosen   *)
(* nondeterministically at each call.                                      *)
(*                                                                         *)
(* The FileCache backend is modelled on its own (SpecFileCache): one step  *)
(* per method call, the clock advancing between calls.                     *)
(***************************************************************************)
EXTENDS Integers, Sequences, FiniteSets, TLC

\* ------------------------------------------------------------------------
\* Bounds
\* ------------------------------------------------------------------------
\* resolutions started in one behaviour
MaxCalls == 2
\* largest number of elements a selector lookup returns; a lookup returns
\* none, one or that many
MaxMatches == 2
\* largest tokensUsed an AI analysis reports
MaxTokens == 2

\* FileCache: constructor arguments maxSize and ttlMs, the latest clock
\* value, and the number of FileCache calls in one behaviour
MaxSize == 2
TtlMs == 1
MaxTime == 3
MaxCacheOps == 4
\* argument strings the locator expressions are built from
MaxArgs == 4

\* selectors the caller asks for
Selectors == {"#a", "#b"}
\* descriptions the caller gives
Descriptions == {"login"}
\* keys and selectors the FileCache is called with
FcKeys == {"#a|login", "#b|login", "#c|login"}
FcSelectors == {"#a"}
\* recommendedSelector values of an AIAnalysisResult ("" is a missing one)
RecommendedSelectors == {"", "#b", "#c"}
\* tokensUsed values of an AIAnalysisResult (0 is also a missing one)
TokenValues == {0, MaxTokens}
\* (successCount, failureCount) of entries a persisted cache is loaded with
InitCounts == {<<0, 0>>, <<7, 3>>}
\* what find() is handed: a selector string or a Locator object
LocatorInputs ==
  {[accessor |-> "string", arg |-> "#a"], [accessor |-> "locator", arg |-> "#b"]}

\* ------------------------------------------------------------------------
\* Enumerations of the source
\* ------------------------------------------------------------------------
ExecutionStrategy ==
  {"DOM_ONLY", "SMART_SEQUENTIAL", "PARALLEL", "VISUAL_FIRST", "SEQUENTIAL"}

LocatorStrategy ==
  {"ORIGINAL_SELECTOR", "CACHED", "DOM_ANALYSIS", "VISUAL_ANALYSIS"}

\* ------------------------------------------------------------------------
\* CachedSelector
\* ------------------------------------------------------------------------
CachedSelector(sel) ==
  [selector |-> sel, successCount |-> 0, failureCount |-> 0]

getCurrentSuccessRatePessimistic(c) ==
  LET total == c.successCount + c.failureCount
  IN  IF total = 0 THEN <<0, 1>> ELSE <<c.successCount, total>>

\* the rate as the fraction <<numerator, denominator>>
getCurrentSuccessRate(c) ==
  LET total == c.successCount + c.failureCount
  IN  IF total = 0 THEN <<1, 1>> ELSE <<c.successCount, total>>

updateSuccessResetsOnFailure(c, success) ==
  IF success
    THEN [c EXCEPT !.successCount = @ + 1]
    ELSE [c EXCEPT !.successCount = 0, !.failureCount = @ + 1]

updateSuccessAlwaysFailure(c, success) ==
  [c EXCEPT !.failureCount = @ + 1]

updateSuccess(c, success) ==
  IF success
    THEN [c EXCEPT !.successCount = @ + 1]
    ELSE [c EXCEPT !.failureCount = @ + 1]

\* `cached && cached.getCurrentSuccessRate() > 0.7` on a present entry
TrustGateLoose(c) ==
  LET r == getCurrentSuccessRate(c) IN r[1] * 10 >= 7 * r[2]

TrustGate(c) ==
  LET r == getCurrentSuccessRate(c) IN r[1] * 10 > 7 * r[2]

\* ------------------------------------------------------------------------
\* SelectorCache store: a map from key to CachedSelector
\* ------------------------------------------------------------------------
generateCacheKey(selector, description) == selector \o "|" \o description

CacheHas(c, key) == key \in DOMAIN c

CachePut(c, key, entry) ==
  [k \in (DOMAIN c) \cup {key} |-> IF k = key THEN entry ELSE c[k]]

CacheUpdateSuccessDropped(c, key, success) == c

CacheUpdateSuccess(c, key, success) ==
  IF key \in DOMAIN c
    THEN [c EXCEPT ![key] = updateSuccess(@, success)]
    ELSE c

\* ------------------------------------------------------------------------
\* Selector format translation, on the inputs find() is handed
\* ------------------------------------------------------------------------
\* the display form: the string itself, or the Locator's toString() text
DisplaySelector(l) ==
  IF l.accessor = "string" THEN l.arg ELSE "locator('" \o l.arg \o "')"

\* String.prototype operations and the pieces of the regular expressions
CharAt(s, i) == IF i >= 1 /\ i <= Len(s) THEN SubSeq(s, i, i) ELSE ""

StartsWithAt(s, p, i) ==
  /\ i >= 1
  /\ i + Len(p) - 1 <= Len(s)
  /\ SubSeq(s, i, i + Len(p) - 1) = p

StartsWith(s, p) == StartsWithAt(s, p, 1)

EndsWith(s, p) == StartsWithAt(s, p, Len(s) - Len(p) + 1)

Includes(s, p) == \E i \in 1..Len(s) : StartsWithAt(s, p, i)

Quotes == {"'", "\""}

\* the first position from i on holding one of the characters of stops,
\* Len(s) + 1 when there is none: where a `[^...]+` run ends
RunEnd(s, i, stops) ==
  LET at == {j \in i..Len(s) : CharAt(s, j) \in stops}
  IN IF at = {} THEN Len(s) + 1
     ELSE CHOOSE j \in at : \A k \in at : j <= k

\* the first position from i on that holds no blank: past a `\s*`
SkipSpaces(s, i) ==
  LET at == {j \in i..Len(s) : CharAt(s, j) # " "}
  IN IF at = {} THEN Len(s) + 1
     ELSE CHOOSE j \in at : \A k \in at : j <= k

NoMatch == [ok |-> FALSE, arg |-> "", name |-> "", next |-> 0]

\* `['"]([^'"]+)['"]` matched at position i
QuotedAt(s, i) ==
  LET e == RunEnd(s, i + 1, Quotes)
  IN IF CharAt(s, i) \in Quotes /\ e > i + 1 /\ e <= Len(s)
       THEN [ok |-> TRUE, arg |-> SubSeq(s, i + 1, e - 1), name |-> "",
             next |-> e + 1]
       ELSE NoMatch

\* `method\(['"]([^'"]+)['"]` matched at position i, followed by `\)`
\* when the expression asks for it
CallAt(s, method, closed, i) ==
  LET q == QuotedAt(s, i + Len(method) + 1)
  IN IF /\ StartsWithAt(s, method \o "(", i)
        /\ q.ok
        /\ closed => CharAt(s, q.next) = ")"
       THEN q
       ELSE NoMatch

\* `getByRole\(['"]([^'"]+)['"],\s*\{\s*name:\s*['"]([^'"]+)['"]` at i
RoleNameAt(s, i) ==
  LET q == CallAt(s, "getByRole", FALSE, i)
      b == SkipSpaces(s, q.next + 1)
      n == SkipSpaces(s, b + 1)
      v == QuotedAt(s, SkipSpaces(s, n + 5))
  IN IF /\ q.ok
        /\ CharAt(s, q.next) = ","
        /\ CharAt(s, b) = "{"
        /\ StartsWithAt(s, "name:", n)
        /\ v.ok
       THEN [ok |-> TRUE, arg |-> q.arg, name |-> v.arg, next |-> v.next]
       ELSE NoMatch

\* String.prototype.match with an unanchored expression: the leftmost match
Leftmost(s, At(_)) ==
  LET at == {i \in 1..Len(s) : At(i).ok}
  IN IF at = {} THEN NoMatch
     ELSE At(CHOOSE i \in at : \A k \in at : i <= k)

MatchCall(s, method, closed) ==
  LET At(i) == CallAt(s, method, closed, i) IN Leftmost(s, At)

MatchRoleName(s) ==
  LET At(i) == RoleNameAt(s, i) IN Leftmost(s, At)

\* `^locator\(['"](.+)['"]\)$`
MatchLocator(s) ==
  IF /\ StartsWith(s, "locator(")
     /\ CharAt(s, 9) \in Quotes
     /\ CharAt(s, Len(s) - 1) \in Quotes
     /\ EndsWith(s, ")")
     /\ Len(s) >= 12
    THEN [ok |-> TRUE, arg |-> SubSeq(s, 10, Len(s) - 2), name |-> "",
          next |-> Len(s) + 1]
    ELSE NoMatch

convertToSelectorEngineFormat(apiSyntax) ==
  LET testId      == MatchCall(apiSyntax, "getByTestId", TRUE)
      roleName    == MatchRoleName(apiSyntax)
      role        == MatchCall(apiSyntax, "getByRole", TRUE)
      text        == MatchCall(apiSyntax, "getByText", FALSE)
      placeholder == MatchCall(apiSyntax, "getByPlaceholder", TRUE)
      label       == MatchCall(apiSyntax, "getByLabel", TRUE)
      altText     == MatchCall(apiSyntax, "getByAltText", TRUE)
      title       == MatchCall(apiSyntax, "getByTitle", TRUE)
  IN CASE MatchLocator(apiSyntax).ok -> MatchLocator(apiSyntax).arg
       [] OTHER ->
     CASE ~Includes(apiSyntax, "getBy") /\ ~Includes(apiSyntax, "locator(")
            -> apiSyntax
       [] OTHER ->
     CASE testId.ok      -> "data-testid=" \o testId.arg
       [] OTHER ->
     CASE roleName.ok    ->
            "role=" \o roleName.arg \o "[name=\"" \o roleName.name \o "\"]"
       [] OTHER ->
     CASE role.ok        -> "role=" \o role.arg
       [] OTHER ->
     CASE text.ok        -> "text=" \o text.arg
       [] OTHER ->
     CASE placeholder.ok -> "placeholder=\"" \o placeholder.arg \o "\""
       [] OTHER ->
     CASE label.ok       -> "label=\"" \o label.arg \o "\""
       [] OTHER ->
     CASE altText.ok     -> "alt=\"" \o altText.arg \o "\""
       [] OTHER ->
     CASE title.ok       -> "title=\"" \o title.arg \o "\""
       [] OTHER          -> apiSyntax

\* `^prefix(.+)$`
MatchPrefix(s, prefix) ==
  IF StartsWith(s, prefix) /\ Len(s) > Len(prefix)
    THEN [ok |-> TRUE, arg |-> SubSeq(s, Len(prefix) + 1, Len(s)),
          name |-> "", next |-> Len(s) + 1]
    ELSE NoMatch

\* `^attr="(.+)"$`
MatchAttribute(s, attr) ==
  LET open == attr \o "=\""
  IN IF StartsWith(s, open) /\ EndsWith(s, "\"") /\ Len(s) >= Len(open) + 2
       THEN [ok |-> TRUE, arg |-> SubSeq(s, Len(open) + 1, Len(s) - 1),
             name |-> "", next |-> Len(s) + 1]
       ELSE NoMatch

\* `^role=([^[]+)\[name="([^"]+)"\]$`
MatchEngineRoleName(s) ==
  LET e == RunEnd(s, 6, {"["})
      f == RunEnd(s, e + 7, {"\""})
  IN IF /\ StartsWith(s, "role=")
        /\ e > 6
        /\ StartsWithAt(s, "[name=\"", e)
        /\ f > e + 7
        /\ StartsWithAt(s, "\"]", f)
        /\ f + 1 = Len(s)
       THEN [ok |-> TRUE, arg |-> SubSeq(s, 6, e - 1),
             name |-> SubSeq(s, e + 7, f - 1), next |-> Len(s) + 1]
       ELSE NoMatch

JsCallDoubleQuoted(method, arg) == method \o "(\"" \o arg \o "\")"

\* the template literal `method('${arg}')`
JsCall(method, arg) == method \o "('" \o arg \o "')"

convertToJavaScriptFormat(selectorEngine) ==
  LET testId      == MatchPrefix(selectorEngine, "data-testid=")
      roleName    == MatchEngineRoleName(selectorEngine)
      role        == MatchPrefix(selectorEngine, "role=")
      text        == MatchPrefix(selectorEngine, "text=")
      placeholder == MatchAttribute(selectorEngine, "placeholder")
      label       == MatchAttribute(selectorEngine, "label")
      alt         == MatchAttribute(selectorEngine, "alt")
      title       == MatchAttribute(selectorEngine, "title")
  IN CASE \/ Includes(selectorEngine, "getBy")
          \/ Includes(selectorEngine, "locator(")
          \/ StartsWith(selectorEngine, "#")
          \/ StartsWith(selectorEngine, ".")
          \/ StartsWith(selectorEngine, "//")
          \/ StartsWith(selectorEngine, "xpath=") -> selectorEngine
       [] OTHER ->
     CASE testId.ok      -> JsCall("getByTestId", testId.arg)
       [] OTHER ->
     CASE roleName.ok    ->
            "getByRole('" \o roleName.arg \o "', { name: '"
              \o roleName.name \o "' })"
       [] OTHER ->
     CASE role.ok        -> JsCall("getByRole", role.arg)
       [] OTHER ->
     CASE text.ok        -> JsCall("getByText", text.arg)
       [] OTHER ->
     CASE placeholder.ok -> JsCall("getByPlaceholder", placeholder.arg)
       [] OTHER ->
     CASE label.ok       -> JsCall("getByLabel", label.arg)
       [] OTHER ->
     CASE alt.ok         -> JsCall("getByAltText", alt.arg)
       [] OTHER ->
     CASE title.ok       -> JsCall("getByTitle", title.arg)
       [] OTHER          -> selectorEngine

\* ------------------------------------------------------------------------
\* State
\* ------------------------------------------------------------------------
VARIABLES
  framework,          \* adapter the locator was built with
  executionStrategy,  \* config.performance.executionStrategy
  cache,              \* the SelectorCache content
  cacheBefore,        \* the content when the resolution in flight started
  calls,              \* resolutions started so far
  pc,                 \* position of the resolution in flight
  api,                \* "findElement" or "find"
  request,            \* selector (engine format), description, display form
  cached,             \* the entry cache.get returned at the cache stage
  first,              \* result of the first AI sub-attempt
  aiResult,           \* what performAIHealingWithTokens returned
  result,             \* the LocatorResult / Locator handed to the caller
  error,              \* the error thrown to the caller
  trace,              \* adapter, AI and cache calls made by this resolution
  reports             \* usage events recorded by this resolution

\* the FileCache backend, modelled on its own
VARIABLES
  fc,                 \* FileCache.cache: the Map, in insertion order
  disk,               \* content of selectors.json
  now,                \* Date.now()
  hitCount,           \* FileCache.hitCount
  missCount,          \* FileCache.missCount
  evictionCount,      \* FileCache.evictionCount
  fcOps,              \* FileCache calls made so far
  lastOp,             \* the latest FileCache call and what it returned
  gets,               \* get calls made, and those that returned an entry,
                      \* since construction or the last clearAll
  insertOrder,        \* keys present, in the order their puts inserted them
  intact              \* selectors.json is what the latest write left

\* the MemoryCache backend, given the same calls as the FileCache
VARIABLES
  mc,                 \* the LRUCache: entries from least to most recently used
  mcHitCount,         \* MemoryCache.hitCount
  mcMissCount,        \* MemoryCache.missCount
  mcEvictionCount,    \* MemoryCache.evictionCount
  mcLastOp,           \* the latest MemoryCache call and what it returned
  mcGets              \* as gets, for the MemoryCache

\* the selector format translation, applied to one locator expression
VARIABLES
  expr,               \* the locator expression, as the test wrote it
  convPc,             \* how far the expression has been translated
  engineForm,         \* convertToSelectorEngineFormat of its text
  nativeForm          \* convertToJavaScriptFormat of engineForm

\* GeminiAIService: one analysis and its request to the provider
VARIABLES
  caller,             \* the analysis under way: analyzeDOM or analyzeVisual
  rqPc,               \* position in makeRequestWithRetry and its caller
  attempt,            \* the loop variable of makeRequestWithRetry
  responses,          \* HTTP status of every POST answered so far
  sleeps,             \* delayMs of every sleep started so far
  outcome             \* what the analysis returned or threw

\* resolutions running concurrently on one AutoHealLocator
VARIABLES
  shared,             \* this.cache: the one SelectorCache of the instance
  procs               \* each resolution: its api, its request, the await it
                      \* is suspended at, the cached selector it is trying
                      \* and the selector the AI gave it

locatorVars ==
  <<framework, executionStrategy, cache, cacheBefore, calls, pc, api, request,
    cached, first, aiResult, result, error, trace, reports>>

fileCacheVars ==
  <<fc, disk, now, hitCount, missCount, evictionCount, fcOps, lastOp, gets,
    insertOrder, intact>>

memoryCacheVars ==
  <<mc, mcHitCount, mcMissCount, mcEvictionCount, mcLastOp, mcGets>>

backendVars == <<fileCacheVars, memoryCacheVars>>

converterVars == <<expr, convPc, engineForm, nativeForm>>

serviceVars == <<caller, rqPc, attempt, responses, sleeps, outcome>>

concurrentVars == <<shared, procs>>

vars ==
  <<locatorVars, fileCacheVars, memoryCacheVars, converterVars, serviceVars,
    concurrentVars>>

NoRequest == [selector |-> "", description |-> "", display |-> ""]
NoCached == [selector |-> "", successCount |-> 0, failureCount |-> 0]
NoAI == [selector |-> "", tokensUsed |-> 0, strategy |-> "NONE"]
NoResult ==
  [actualSelector |-> "", strategy |-> "NONE", fromCache |-> FALSE,
   tokensUsed |-> 0]
NoError == [type |-> "none", origin |-> "", description |-> ""]

\* one entry of the call trace; for an analysis call, key is the
\* recommendedSelector of its answer and sel the selector made of it
Call(op, stage, key, sel, n, tok) ==
  [op |-> op, stage |-> stage, key |-> key, sel |-> sel, n |-> n, tok |-> tok]

\* one usage event (AutoHealReporter.recordSelectorUsage)
SelectorReport(strategy, success, actual, tokens) ==
  [originalSelector |-> request.display, description |-> request.description,
   strategy |-> strategy, success |-> success, actualSelector |-> actual,
   tokensUsed |-> tokens]

CacheKey == generateCacheKey(request.selector, request.description)

EmptyCache == [k \in {} |-> NoCached]

InitialCaches ==
  {EmptyCache} \cup
  { [k \in {generateCacheKey(s, d)} |->
       [selector |-> t, successCount |-> p[1], failureCount |-> p[2]]] :
    s \in Selectors, d \in Descriptions, t \in Selectors, p \in InitCounts }

\* a FileCache entry's value: the CachedSelector with its creation time
NoValue ==
  [selector |-> "", timestamp |-> 0, successCount |-> 0, failureCount |-> 0]

\* a FileCache call: what it returned (hit, value) and the line it logged
Op(op, key, hit, value, log) ==
  [op |-> op, key |-> key, hit |-> hit, value |-> value, log |-> log]

NoOp == Op("none", "", FALSE, NoValue, "")

NoGets == [made |-> 0, returned |-> 0]

\* the get calls counted so far, after the call op
GetsAfter(g, op) ==
  CASE op.op = "get" ->
         [made |-> g.made + 1,
          returned |-> g.returned + (IF op.hit THEN 1 ELSE 0)]
    [] op.op \in {"clearAll", "constructor"} -> NoGets
    [] OTHER -> g

\* new FileCache(dir, maxSize, ttlMs) on a directory without selectors.json
\* selectors.json: absent, unparsable, or a JSON document
NoFile == [kind |-> "absent", entries |-> <<>>]

FileCacheConstructed ==
  /\ fc = <<>>
  /\ disk = NoFile
  /\ now = 0
  /\ hitCount = 0
  /\ missCount = 0
  /\ evictionCount = 0
  /\ fcOps = 0
  /\ lastOp = NoOp
  /\ gets = NoGets
  /\ insertOrder = <<>>
  /\ intact = TRUE

\* new MemoryCache(maxSize, ttlMs)
MemoryCacheConstructed ==
  /\ mc = <<>>
  /\ mcHitCount = 0
  /\ mcMissCount = 0
  /\ mcEvictionCount = 0
  /\ mcLastOp = NoOp
  /\ mcGets = NoGets

\* no expression is being translated
NoExpression ==
  [accessor |-> "none", quote |-> "", arg |-> "", name |-> "",
   option |-> "none"]

ConvertersIdle ==
  /\ expr = NoExpression
  /\ convPc = "idle"
  /\ engineForm = ""
  /\ nativeForm = ""

\* no request to the AI provider is under way
ServiceIdle ==
  /\ caller = "none"
  /\ rqPc = "idle"
  /\ attempt = 0
  /\ responses = <<>>
  /\ sleeps = <<>>
  /\ outcome = ""

\* no resolution shares the cache with another
NoResolutions ==
  /\ shared = EmptyCache
  /\ procs = <<>>

Init ==
  /\ FileCacheConstructed
  /\ MemoryCacheConstructed
  /\ ConvertersIdle
  /\ ServiceIdle
  /\ NoResolutions
  /\ framework \in {"selenium", "playwright"}
  /\ executionStrategy \in ExecutionStrategy
  /\ cache \in InitialCaches
  /\ cacheBefore = cache
  /\ calls = 0
  /\ pc = "idle"
  /\ api = "none"
  /\ request = NoRequest
  /\ cached = NoCached
  /\ first = NoAI
  /\ aiResult = NoAI
  /\ result = NoResult
  /\ error = NoError
  /\ trace = <<>>
  /\ reports = <<>>


\* ------------------------------------------------------------------------
\* Helpers of the resolution pipeline
\* ------------------------------------------------------------------------
\* every variable a step of the resolution may change
Step(npc, ncache, ncached, nfirst, nai, nresult, nerror, ntrace, nreports) ==
  /\ pc' = npc
  /\ cache' = ncache
  /\ cached' = ncached
  /\ first' = nfirst
  /\ aiResult' = nai
  /\ result' = nresult
  /\ error' = nerror
  /\ trace' = ntrace
  /\ reports' = nreports
  /\ UNCHANGED <<framework, executionStrategy, cacheBefore, calls, api, request>>
  /\ UNCHANGED <<backendVars, converterVars, serviceVars, concurrentVars>>

\* cacheSuccess(originalSelector, description, successfulSelector)
cacheSuccessKeepsOriginal(c, originalSelector, description, successfulSelector) ==
  CachePut(c, generateCacheKey(originalSelector, description),
           CachedSelector(originalSelector))

cacheSuccess(c, originalSelector, description, successfulSelector) ==
  CachePut(c, generateCacheKey(originalSelector, description),
           CachedSelector(successfulSelector))

PutCall(stage, sel) == Call("put", stage, CacheKey, sel, 0, 0)

UpdateCall(success) ==
  Call("updateSuccess", "cache", CacheKey, cached.selector,
       IF success THEN 1 ELSE 0, 0)

RecommendedOrOriginal(rec, originalSelector) == originalSelector

\* `result.recommendedSelector || originalSelector`
RecommendedOr(rec, originalSelector) ==
  IF rec = "" THEN originalSelector ELSE rec

\* findElement, step 1: `if (elements.length > 0)`
OriginalResolvedStrict(n) == n > 1

OriginalResolved(n) == n > 0

\* findElement, step 3: `if (elements.length === 0)` is the failure branch
HealedResolved(n) == n > 0

\* the catch of step 3: `error.message.includes('Could not find element
\* even after AI healing')`
AlreadyRecordedNever(err) == FALSE

AlreadyRecorded(err) == err.type = "NotFoundAfterAIHealing"

NotFoundAfterAIHealingNoDescription ==
  [type |-> "NotFoundAfterAIHealing", origin |-> "locateElementWithHealing",
   description |-> ""]

NotFoundAfterAIHealing ==
  [type |-> "NotFoundAfterAIHealing", origin |-> "locateElementWithHealing",
   description |-> request.description]

NotFoundAfterHealing ==
  [type |-> "NotFoundAfterHealing", origin |-> "find",
   description |-> request.description]

ServiceError(origin) ==
  [type |-> "ServiceError", origin |-> origin, description |-> ""]

HealedPc == IF api = "findElement" THEN "fe_healed" ELSE "pw_healed"

\* step 2 up to the first await: generateCacheKey, cache.get, the trust gate
EnterCacheStage(t) ==
  LET key == CacheKey
      hit == CacheHas(cache, key)
      got == IF hit THEN cache[key] ELSE NoCached
      get == Call("get", "cache", key, got.selector, IF hit THEN 1 ELSE 0, 0)
  IN  Step(IF hit /\ TrustGate(got)
             THEN (IF api = "findElement" THEN "fe_cached" ELSE "pw_cached")
             ELSE "ai_first",
           cache, got, first, aiResult, result, error,
           trace \o t \o <<get>>, reports)

\* ------------------------------------------------------------------------
\* findElement (Selenium)
\* ------------------------------------------------------------------------
StartFindElement(selector, description) ==
  /\ pc = "idle"
  /\ calls < MaxCalls
  /\ framework = "selenium"
  /\ pc' = "fe_original"
  /\ api' = "findElement"
  /\ request' = [selector |-> selector, description |-> description,
                 display |-> selector]
  /\ calls' = calls + 1
  /\ cacheBefore' = cache
  /\ UNCHANGED <<framework, executionStrategy, cache, cached, first, aiResult,
                 result, error, trace, reports>>
  /\ UNCHANGED <<backendVars, converterVars, serviceVars, concurrentVars>>

\* `if (!(this.adapter instanceof SeleniumAdapter)) throw`
RejectFindElement ==
  /\ pc = "idle"
  /\ calls < MaxCalls
  /\ framework # "selenium"
  /\ pc' = "rejected"
  /\ api' = "findElement"
  /\ error' = [type |-> "RequiresSeleniumAdapter", origin |-> "findElement",
               description |-> ""]
  /\ calls' = calls + 1
  /\ cacheBefore' = cache
  /\ UNCHANGED <<framework, executionStrategy, cache, request, cached, first,
                 aiResult, result, trace, reports>>
  /\ UNCHANGED <<backendVars, converterVars, serviceVars, concurrentVars>>

\* success of step 1: cacheSuccess, the result, the usage event
FE_OriginalSuccess(t) ==
  Step("returned",
       cacheSuccess(cache, request.selector, request.description,
                    request.selector),
       cached, first, aiResult,
       [actualSelector |-> request.selector, strategy |-> "ORIGINAL_SELECTOR",
        fromCache |-> FALSE, tokensUsed |-> 0],
       error,
       trace \o t \o <<PutCall("original", request.selector)>>,
       Append(reports,
              SelectorReport("ORIGINAL_SELECTOR", TRUE, request.selector, 0)))

\* step 1: adapter.findElements(request.selector)
FE_Original ==
  /\ pc = "fe_original"
  /\ \E n \in {0, 1, MaxMatches} :
       LET t == <<Call("findElements", "original", "", request.selector, n, 0)>>
       IN  IF ~OriginalResolved(n)
             THEN EnterCacheStage(t)
             ELSE IF n = 1
               THEN FE_OriginalSuccess(t)
               ELSE Step("fe_original_disambiguate", cache, cached, first,
                         aiResult, result, error, trace \o t, reports)

\* step 1, several matches: disambiguate; a throw is caught and logged
FE_OriginalDisambiguate ==
  /\ pc = "fe_original_disambiguate"
  /\ \E ok \in BOOLEAN :
       LET t == <<Call("selectBestMatchingElement", "original", "",
                       request.selector, IF ok THEN 1 ELSE -1, 0)>>
       IN  IF ok THEN FE_OriginalSuccess(t) ELSE EnterCacheStage(t)

\* success of step 2: updateSuccess(true), the result, the usage event
FE_CachedSuccess(t) ==
  Step("returned",
       CacheUpdateSuccess(cache, CacheKey, TRUE),
       cached, first, aiResult,
       [actualSelector |-> cached.selector, strategy |-> "CACHED",
        fromCache |-> TRUE, tokensUsed |-> 0],
       error,
       trace \o t \o <<UpdateCall(TRUE)>>,
       Append(reports, SelectorReport("CACHED", TRUE, cached.selector, 0)))

\* step 2: adapter.findElements(cached.selector); an empty list leaves the
\* try block without touching the entry
FE_Cached ==
  /\ pc = "fe_cached"
  /\ \E n \in {0, 1, MaxMatches} :
       LET t == <<Call("findElements", "cache", "", cached.selector, n, 0)>>
       IN  IF n = 0
             THEN Step("ai_first", cache, cached, first, aiResult, result,
                       error, trace \o t, reports)
             ELSE IF n = 1
               THEN FE_CachedSuccess(t)
               ELSE Step("fe_cached_disambiguate", cache, cached, first,
                         aiResult, result, error, trace \o t, reports)

\* step 2, several matches: a throw of disambiguate reaches the catch, which
\* calls updateSuccess(false)
FE_CachedDisambiguate ==
  /\ pc = "fe_cached_disambiguate"
  /\ \E ok \in BOOLEAN :
       LET t == <<Call("selectBestMatchingElement", "cache", "",
                       cached.selector, IF ok THEN 1 ELSE -1, 0)>>
       IN  IF ok
             THEN FE_CachedSuccess(t)
             ELSE Step("ai_first", CacheUpdateSuccess(cache, CacheKey, FALSE),
                       cached, first, aiResult, result, error,
                       trace \o t \o <<UpdateCall(FALSE)>>, reports)


\* ------------------------------------------------------------------------
\* AI healing stage: performAIHealingWithTokens
\* ------------------------------------------------------------------------
AnalysisOp(strategy) ==
  IF strategy = "VISUAL_ANALYSIS" THEN "analyzeVisual" ELSE "analyzeDOM"

FirstSubStrategyVisualFirstOnly(es) ==
  IF es = "VISUAL_FIRST" THEN "VISUAL_ANALYSIS" ELSE "DOM_ANALYSIS"

\* the analysis performAIHealingWithTokens starts with
FirstSubStrategy(es) ==
  IF es \in {"VISUAL_FIRST", "PARALLEL"} THEN "VISUAL_ANALYSIS" ELSE "DOM_ANALYSIS"

HasFallbackExceptSequential(es) ==
  es \notin {"PARALLEL", "DOM_ONLY", "SEQUENTIAL"}

\* VISUAL_FIRST and (SMART_)SEQUENTIAL verify the first selector and fall back
HasFallback(es) == es \notin {"PARALLEL", "DOM_ONLY"}

OtherSubStrategy(strategy) ==
  IF strategy = "VISUAL_ANALYSIS" THEN "DOM_ANALYSIS" ELSE "VISUAL_ANALYSIS"

\* what an analysis call answers: it throws, or an AIAnalysisResult
AIOutcomes ==
  {[threw |-> TRUE, recommendedSelector |-> "", tokensUsed |-> 0]} \cup
  { [threw |-> FALSE, recommendedSelector |-> s, tokensUsed |-> t] :
    s \in RecommendedSelectors, t \in TokenValues }

\* an error leaves performAIHealingWithTokens: findElement's catch records a
\* failure event unless the error is its own not-found error; find's catch
\* only logs and rethrows
HealingThrows(err, t) ==
  Step("thrown", cache, cached, first, aiResult, result, err, trace \o t,
       IF api = "findElement" /\ ~AlreadyRecorded(err)
         THEN Append(reports, SelectorReport("DOM_ANALYSIS", FALSE, "", 0))
         ELSE reports)

\* the first sub-attempt is outside every try block: its error propagates
FirstThrowStartsFallbackWhenAvailable(es) == HasFallback(es)

FirstThrowStartsFallback(es) == FALSE

\* first sub-attempt (getPageSource + analyzeDOM, or takeScreenshot +
\* analyzeVisual); a throw of the adapter call is a throw of the sub-attempt
AIFirst ==
  /\ pc = "ai_first"
  /\ \E out \in AIOutcomes :
       LET strategy == FirstSubStrategy(executionStrategy)
           sub == [selector |-> RecommendedOr(out.recommendedSelector,
                                              request.selector),
                   tokensUsed |-> out.tokensUsed, strategy |-> strategy]
           t == <<Call(AnalysisOp(strategy), "ai", out.recommendedSelector,
                       IF out.threw THEN "" ELSE sub.selector,
                       IF out.threw THEN -1 ELSE 0, out.tokensUsed)>>
       IN  IF out.threw
             THEN IF FirstThrowStartsFallback(executionStrategy)
                    THEN Step("ai_fallback", cache, cached,
                              [NoAI EXCEPT !.strategy = strategy], aiResult,
                              result, error, trace \o t, reports)
                    ELSE HealingThrows(ServiceError(AnalysisOp(strategy)), t)
             ELSE IF HasFallback(executionStrategy)
               THEN Step("ai_verify", cache, cached, sub, aiResult, result,
                         error, trace \o t, reports)
               ELSE Step(HealedPc, cache, cached, first, sub, result, error,
                         trace \o t, reports)

\* tryDOMThenVisual / tryVisualThenDOM, step 2: adapter.findElements on the
\* first selector (both adapters return [] instead of throwing)
AIVerify ==
  /\ pc = "ai_verify"
  /\ \E n \in {0, 1, MaxMatches} :
       LET t == <<Call("findElements", "verify", "", first.selector, n, 0)>>
       IN  IF n > 0
             THEN Step(HealedPc, cache, cached, first, first, result, error,
                       trace \o t, reports)
             ELSE Step("ai_fallback", cache, cached, first, aiResult, result,
                       error, trace \o t, reports)

\* step 3: the fallback sub-attempt; its error is caught and the first
\* result is returned instead
AIFallback ==
  /\ pc = "ai_fallback"
  /\ \E out \in AIOutcomes :
       LET strategy == OtherSubStrategy(first.strategy)
           sub == [selector |-> RecommendedOr(out.recommendedSelector,
                                              request.selector),
                   tokensUsed |-> first.tokensUsed + out.tokensUsed,
                   strategy |-> strategy]
           t == <<Call(AnalysisOp(strategy), "ai", out.recommendedSelector,
                       IF out.threw THEN "" ELSE sub.selector,
                       IF out.threw THEN -1 ELSE 0, out.tokensUsed)>>
       IN  Step(HealedPc, cache, cached, first,
                IF out.threw THEN first ELSE sub,
                result, error, trace \o t, reports)

\* ------------------------------------------------------------------------
\* findElement, step 3 after performAIHealingWithTokens
\* ------------------------------------------------------------------------
FE_HealedSuccessPutFirst(t) ==
  Step("returned",
       cacheSuccess(cache, request.selector, request.description,
                    aiResult.selector),
       cached, first, aiResult,
       [actualSelector |-> aiResult.selector, strategy |-> aiResult.strategy,
        fromCache |-> FALSE,
        tokensUsed |-> aiResult.tokensUsed],
       error,
       <<PutCall("healed", aiResult.selector)>> \o trace \o t,
       Append(reports,
              SelectorReport(aiResult.strategy, TRUE, aiResult.selector,
                             aiResult.tokensUsed)))

FE_HealedSuccess(t) ==
  Step("returned",
       cacheSuccess(cache, request.selector, request.description,
                    aiResult.selector),
       cached, first, aiResult,
       [actualSelector |-> aiResult.selector, strategy |-> aiResult.strategy,
        fromCache |-> FALSE,
        tokensUsed |-> aiResult.tokensUsed],
       error,
       trace \o t \o <<PutCall("healed", aiResult.selector)>>,
       Append(reports,
              SelectorReport(aiResult.strategy, TRUE, aiResult.selector,
                             aiResult.tokensUsed)))

\* adapter.findElements(aiResult.selector)
FE_Healed ==
  /\ pc = "fe_healed"
  /\ \E n \in {0, 1, MaxMatches} :
       LET t == <<Call("findElements", "healed", "", aiResult.selector, n, 0)>>
           failure == SelectorReport(aiResult.strategy, FALSE,
                                     aiResult.selector, aiResult.tokensUsed)
       IN  IF ~HealedResolved(n)
             THEN Step("thrown", cache, cached, first, aiResult, result,
                       NotFoundAfterAIHealing, trace \o t,
                       IF AlreadyRecorded(NotFoundAfterAIHealing)
                         THEN Append(reports, failure)
                         ELSE Append(Append(reports, failure),
                                     SelectorReport("DOM_ANALYSIS", FALSE, "", 0)))
             ELSE IF n = 1
               THEN FE_HealedSuccess(t)
               ELSE Step("fe_healed_disambiguate", cache, cached, first,
                         aiResult, result, error, trace \o t, reports)

\* several matches of the healed selector: a throw of disambiguate reaches
\* the catch of step 3
FE_HealedDisambiguate ==
  /\ pc = "fe_healed_disambiguate"
  /\ \E ok \in BOOLEAN :
       LET t == <<Call("selectBestMatchingElement", "healed", "",
                       aiResult.selector, IF ok THEN 1 ELSE -1, 0)>>
       IN  IF ok
             THEN FE_HealedSuccess(t)
             ELSE HealingThrows(ServiceError("selectBestMatchingElement"), t)


\* ------------------------------------------------------------------------
\* find (Playwright); a count() answer of -1 stands for a count() that throws
\* ------------------------------------------------------------------------
StartFind(locatorOrSelector, description) ==
  /\ pc = "idle"
  /\ calls < MaxCalls
  /\ framework = "playwright"
  /\ pc' = "pw_original"
  /\ api' = "find"
  /\ request' = [selector |-> convertToSelectorEngineFormat(
                   DisplaySelector(locatorOrSelector)),
                 description |-> description,
                 display |-> DisplaySelector(locatorOrSelector)]
  /\ calls' = calls + 1
  /\ cacheBefore' = cache
  /\ UNCHANGED <<framework, executionStrategy, cache, cached, first, aiResult,
                 result, error, trace, reports>>
  /\ UNCHANGED <<backendVars, converterVars, serviceVars, concurrentVars>>

\* `if (!(this.adapter instanceof PlaywrightAdapter)) throw`
RejectFind ==
  /\ pc = "idle"
  /\ calls < MaxCalls
  /\ framework # "playwright"
  /\ pc' = "rejected"
  /\ api' = "find"
  /\ error' = [type |-> "RequiresPlaywrightAdapter", origin |-> "find",
               description |-> ""]
  /\ calls' = calls + 1
  /\ cacheBefore' = cache
  /\ UNCHANGED <<framework, executionStrategy, cache, request, cached, first,
                 aiResult, result, trace, reports>>
  /\ UNCHANGED <<backendVars, converterVars, serviceVars, concurrentVars>>

\* an error of count() reaches the outer catch, which logs and rethrows
PW_CountThrows(t) ==
  Step("thrown", cache, cached, first, aiResult, result, ServiceError("count"),
       trace \o t, reports)

\* step 1: originalLocator.count()
PW_Original ==
  /\ pc = "pw_original"
  /\ \E n \in {-1, 0, 1, MaxMatches} :
       LET t == <<Call("count", "original", "", request.selector, n, 0)>>
       IN  IF n = -1
             THEN PW_CountThrows(t)
             ELSE IF n = 1
               THEN Step("returned",
                         cacheSuccess(cache, request.selector,
                                      request.description, request.selector),
                         cached, first, aiResult,
                         [actualSelector |-> request.selector,
                          strategy |-> "ORIGINAL_SELECTOR", fromCache |-> FALSE, tokensUsed |-> 0],
                         error,
                         trace \o t \o <<PutCall("original", request.selector)>>,
                         Append(reports,
                                SelectorReport("ORIGINAL_SELECTOR", TRUE,
                                               request.display, 0)))
               ELSE EnterCacheStage(t)

\* step 2: page.locator(cached.selector).count()
PW_Cached ==
  /\ pc = "pw_cached"
  /\ \E n \in {-1, 0, 1, MaxMatches} :
       LET t == <<Call("count", "cache", "", cached.selector, n, 0)>>
       IN  IF n = -1
             THEN PW_CountThrows(t)
             ELSE IF n = 1
               THEN Step("returned",
                         CacheUpdateSuccess(cache, CacheKey, TRUE),
                         cached, first, aiResult,
                         [actualSelector |-> cached.selector,
                          strategy |-> "CACHED", fromCache |-> TRUE, tokensUsed |-> 0],
                         error,
                         trace \o t \o <<UpdateCall(TRUE)>>,
                         Append(reports,
                                SelectorReport("CACHED", TRUE,
                                  convertToJavaScriptFormat(cached.selector), 0)))
               ELSE Step("ai_first",
                         CacheUpdateSuccess(cache, CacheKey, FALSE),
                         cached, first, aiResult, result, error,
                         trace \o t \o <<UpdateCall(FALSE)>>, reports)

\* step 3 after performAIHealingWithTokens: page.locator(aiResult.selector)
\* .count(); the failure event is recorded without a token count
PW_Healed ==
  /\ pc = "pw_healed"
  /\ \E n \in {-1, 0, 1, MaxMatches} :
       LET t == <<Call("count", "healed", "", aiResult.selector, n, 0)>>
       IN  IF n = -1
             THEN PW_CountThrows(t)
             ELSE IF n = 1
               THEN Step("returned",
                         cacheSuccess(cache, request.selector,
                                      request.description, aiResult.selector),
                         cached, first, aiResult,
                         [actualSelector |-> aiResult.selector,
                          strategy |-> aiResult.strategy, fromCache |-> FALSE,
                          tokensUsed |-> aiResult.tokensUsed],
                         error,
                         trace \o t \o <<PutCall("healed", aiResult.selector)>>,
                         Append(reports,
                                SelectorReport(aiResult.strategy, TRUE,
                                  convertToJavaScriptFormat(aiResult.selector),
                                  aiResult.tokensUsed)))
               ELSE Step("thrown", cache, cached, first, aiResult, result,
                         NotFoundAfterHealing, trace \o t,
                         Append(reports,
                                SelectorReport(aiResult.strategy, FALSE, "", 0)))

\* ------------------------------------------------------------------------
\* The caller has the element or the error; the next resolution may start
\* ------------------------------------------------------------------------
Finish ==
  /\ pc \in {"returned", "thrown", "rejected"}
  /\ pc' = "idle"
  /\ api' = "none"
  /\ request' = NoRequest
  /\ cached' = NoCached
  /\ first' = NoAI
  /\ aiResult' = NoAI
  /\ result' = NoResult
  /\ error' = NoError
  /\ trace' = <<>>
  /\ reports' = <<>>
  /\ cacheBefore' = cache
  /\ UNCHANGED <<framework, executionStrategy, cache, calls>>
  /\ UNCHANGED <<backendVars, converterVars, serviceVars, concurrentVars>>

\* clearCache(): cache.clearAll(), between two resolutions
ClearCache ==
  /\ pc = "idle"
  /\ cache' = EmptyCache
  /\ cacheBefore' = EmptyCache
  /\ UNCHANGED <<framework, executionStrategy, calls, pc, api, request, cached,
                 first, aiResult, result, error, trace, reports>>
  /\ UNCHANGED <<backendVars, converterVars, serviceVars, concurrentVars>>

Next ==
  \/ ClearCache
  \/ \E s \in Selectors, d \in Descriptions : StartFindElement(s, d)
  \/ RejectFindElement
  \/ FE_Original
  \/ FE_OriginalDisambiguate
  \/ FE_Cached
  \/ FE_CachedDisambiguate
  \/ AIFirst
  \/ AIVerify
  \/ AIFallback
  \/ FE_Healed
  \/ FE_HealedDisambiguate
  \/ \E l \in LocatorInputs, d \in Descriptions : StartFind(l, d)
  \/ RejectFind
  \/ PW_Original
  \/ PW_Cached
  \/ PW_Healed
  \/ Finish

Spec == Init /\ [][Next]_vars

\* ------------------------------------------------------------------------
\* Type invariant
\* ------------------------------------------------------------------------
TypeOK ==
  /\ framework \in {"selenium", "playwright"}
  /\ executionStrategy \in ExecutionStrategy
  /\ calls \in 0..MaxCalls
  /\ api \in {"none", "findElement", "find"}
  /\ \A k \in DOMAIN cache :
       /\ cache[k].successCount >= 0
       /\ cache[k].failureCount >= 0
  /\ Len(reports) <= 2


\* ------------------------------------------------------------------------
\* FileCache: a Map in insertion order, persisted to selectors.json
\* ------------------------------------------------------------------------
\* `new CachedSelector(selector)` at time t
StampedSelector(sel, t) ==
  [selector |-> sel, timestamp |-> t, successCount |-> 0, failureCount |-> 0]

\* position of key in the Map, 0 when absent
MapIndex(m, key) ==
  IF \E i \in DOMAIN m : m[i].key = key
    THEN CHOOSE i \in DOMAIN m : m[i].key = key
    ELSE 0

MapHas(m, key) == MapIndex(m, key) # 0

MapGet(m, key) == m[MapIndex(m, key)].value

\* Map.set: a present key keeps its position, a new key goes last
MapSet(m, key, value) ==
  IF MapHas(m, key)
    THEN [m EXCEPT ![MapIndex(m, key)].value = value]
    ELSE Append(m, [key |-> key, value |-> value])

MapDelete(m, key) == SelectSeq(m, LAMBDA e : e.key # key)

\* size()
Size(m) == Len(m)

ExpiredLate(value, t) == t - value.timestamp > TtlMs + 1

\* `Date.now() - value.timestamp > this.ttlMs`
Expired(value, t) == t - value.timestamp > TtlMs

\* JSON.stringify of a CachedSelector (its fingerprint is undefined)
ToJson(value) ==
  [isNull |-> FALSE, selector |-> value.selector,
   timestamp |-> value.timestamp, successCount |-> value.successCount,
   failureCount |-> value.failureCount]

\* the document saveToDisk writes: one member per key, in Map order
Document(m) ==
  [kind |-> "document",
   entries |-> [i \in DOMAIN m |-> [key |-> m[i].key,
                                    json |-> ToJson(m[i].value)]]]

\* what a call does to the file: no write, a write, a write that fails
Save(ok) == IF ok THEN "written" ELSE "failed"

\* saveToDisk: the whole Map is written; an error of the write is caught
\* and leaves the file as it was
SaveToDisk(m, save) == IF save = "written" THEN Document(m) ELSE disk

\* the keys in the order their puts inserted them, after a call that left
\* the Map m: a key the call found present keeps its place
InsertOrderAfter(m, op) ==
  LET kept == SelectSeq(insertOrder, LAMBDA k : MapHas(m, k))
  IN  CASE op.op = "constructor" -> [i \in DOMAIN m |-> m[i].key]
        [] op.op = "put" /\ (\A i \in DOMAIN kept : kept[i] # op.key) ->
             Append(kept, op.key)
        [] OTHER -> kept

HitRateOneWhenEmpty(hits, misses) ==
  IF hits + misses = 0 THEN <<1, 1>> ELSE <<hits, hits + misses>>

\* getMetrics().hitRate as the fraction <<numerator, denominator>>
HitRate(hits, misses) ==
  IF hits + misses = 0 THEN <<0, 1>> ELSE <<hits, hits + misses>>

\* FileCache.getMetrics()
FcGetMetrics ==
  [hitCount |-> hitCount, missCount |-> missCount,
   hitRate |-> HitRate(hitCount, missCount), totalEntries |-> Size(fc),
   evictionCount |-> evictionCount]

FcDone(nfc, save, nhit, nmiss, nevict, op) ==
  /\ fcOps < MaxCacheOps
  /\ fc' = nfc
  /\ disk' = SaveToDisk(nfc, save)
  /\ insertOrder' = InsertOrderAfter(nfc, op)
  /\ intact' = CASE save = "written" -> TRUE
                  [] save = "failed" -> FALSE
                  [] OTHER -> intact
  /\ hitCount' = nhit
  /\ missCount' = nmiss
  /\ evictionCount' = nevict
  /\ fcOps' = fcOps + 1
  /\ lastOp' = op
  /\ gets' = GetsAfter(gets, op)
  /\ UNCHANGED now
  /\ UNCHANGED <<locatorVars, converterVars, serviceVars, concurrentVars>>

\* get(key): an expired entry is deleted from the Map (the file is not
\* rewritten) and the call is a miss
FcGet(key) ==
  IF MapHas(fc, key)
    THEN LET value == MapGet(fc, key)
         IN  IF Expired(value, now)
               THEN FcDone(MapDelete(fc, key), "none", hitCount, missCount + 1,
                           evictionCount,
                           Op("get", key, FALSE, NoValue, "EXPIRED"))
               ELSE FcDone(fc, "none", hitCount + 1, missCount, evictionCount,
                           Op("get", key, TRUE, value, "HIT"))
    ELSE FcDone(fc, "none", hitCount, missCount + 1, evictionCount,
                Op("get", key, FALSE, NoValue, "MISS"))

\* put(key, new CachedSelector(sel)): at capacity the first key of the Map
\* is deleted, whether or not key is present
FcPut(key, sel) ==
  \E ok \in BOOLEAN :
    LET full == Size(fc) >= MaxSize /\ Size(fc) > 0
        kept == IF full THEN MapDelete(fc, fc[1].key) ELSE fc
        value == StampedSelector(sel, now)
        m == MapSet(kept, key, value)
    IN  FcDone(m, Save(ok), hitCount, missCount,
               IF full THEN evictionCount + 1 ELSE evictionCount,
               Op("put", key, FALSE, value, "STORED"))

\* remove(key)
FcRemove(key) ==
  \E ok \in BOOLEAN :
    LET found == MapHas(fc, key)
        m == MapDelete(fc, key)
    IN  FcDone(m, IF found THEN Save(ok) ELSE "none", hitCount,
               missCount, evictionCount,
               Op("remove", key, found, NoValue, ""))

\* clearAll()
FcClearAll ==
  \E ok \in BOOLEAN :
    FcDone(<<>>, Save(ok), 0, 0, 0,
           Op("clearAll", "", FALSE, NoValue, ""))

\* updateSuccess(key, success): Map.get without the expiry test
FcUpdateSuccess(key, success) ==
  \E ok \in BOOLEAN :
    IF MapHas(fc, key)
      THEN LET value == updateSuccess(MapGet(fc, key), success)
               m == MapSet(fc, key, value)
           IN  FcDone(m, Save(ok), hitCount, missCount, evictionCount,
                      Op("updateSuccess", key, TRUE, value, ""))
      ELSE FcDone(fc, "none", hitCount, missCount, evictionCount,
                  Op("updateSuccess", key, FALSE, NoValue, ""))

\* evictExpired()
FcEvictExpired ==
  \E ok \in BOOLEAN :
    LET m == SelectSeq(fc, LAMBDA e : ~Expired(e.value, now))
        deleted == Len(fc) - Len(m)
    IN  FcDone(m, IF deleted > 0 THEN Save(ok) ELSE "none", hitCount,
               missCount, evictionCount + deleted,
               Op("evictExpired", "", deleted > 0, NoValue,
                  IF deleted > 0 THEN "Evicted" ELSE ""))

\* a member of the document whose value is null
JsonNull ==
  [isNull |-> TRUE, selector |-> "", timestamp |-> 0, successCount |-> 0,
   failureCount |-> 0]

\* what may have happened to selectors.json before a FileCache is built on
\* it: nothing, its text no longer parses, or one member's value is null
Damages == {"none", "invalid", "nullFirst", "nullLast"}

Damaged(file, damage) ==
  CASE damage = "invalid" -> [kind |-> "invalid", entries |-> <<>>]
    [] damage = "nullFirst" /\ Len(file.entries) >= 1 ->
         [file EXCEPT !.entries[1].json = JsonNull]
    [] damage = "nullLast" /\ Len(file.entries) >= 2 ->
         [file EXCEPT !.entries[Len(file.entries)].json = JsonNull]
    [] OTHER -> file

FromJsonFresh(json, t) == StampedSelector(json.selector, t)

\* `Object.assign(new CachedSelector(typedValue.selector), typedValue)`
FromJson(json, t) ==
  [StampedSelector(json.selector, t) EXCEPT
     !.selector = json.selector, !.timestamp = json.timestamp,
     !.successCount = json.successCount, !.failureCount = json.failureCount]

\* the loop of loadFromDisk from member i on: a null value throws at
\* `typedValue.timestamp`, which ends the loop with the Map as it is
RECURSIVE LoadEntries(_, _, _, _)
LoadEntries(entries, t, i, acc) ==
  IF i > Len(entries)
    THEN [map |-> acc, log |-> "Loaded"]
    ELSE LET json == entries[i].json
         IN  IF json.isNull
               THEN [map |-> acc, log |-> "Failed to load"]
               ELSE IF t - json.timestamp > TtlMs
                 THEN LoadEntries(entries, t, i + 1, acc)
                 ELSE LoadEntries(entries, t, i + 1,
                                  MapSet(acc, entries[i].key, FromJson(json, t)))

\* loadFromDisk
LoadFromDisk(file, t) ==
  CASE file.kind = "absent" -> [map |-> <<>>, log |-> "No existing cache file"]
    [] file.kind = "invalid" -> [map |-> <<>>, log |-> "Failed to load"]
    [] OTHER -> LoadEntries(file.entries, t, 1, <<>>)

\* the process ends and a new FileCache is constructed on the directory
FcRestart(damage) ==
  LET file == Damaged(disk, damage)
      loaded == LoadFromDisk(file, now)
      op == Op("constructor", "", FALSE, NoValue, loaded.log)
  IN  /\ fcOps < MaxCacheOps
      /\ fc' = loaded.map
      /\ disk' = file
      /\ hitCount' = 0
      /\ missCount' = 0
      /\ evictionCount' = 0
      /\ fcOps' = fcOps + 1
      /\ lastOp' = op
      /\ gets' = GetsAfter(gets, op)
      /\ insertOrder' = InsertOrderAfter(loaded.map, op)
      /\ intact' = (intact /\ file = disk)
      /\ UNCHANGED now
      /\ UNCHANGED <<locatorVars, converterVars, serviceVars, concurrentVars>>

\* time passes between two calls
Tick ==
  /\ now < MaxTime
  /\ now' = now + 1
  /\ UNCHANGED <<fc, disk, hitCount, missCount, evictionCount, fcOps, lastOp,
                 gets, insertOrder, intact>>
  /\ UNCHANGED memoryCacheVars
  /\ UNCHANGED <<locatorVars, converterVars, serviceVars, concurrentVars>>

\* ------------------------------------------------------------------------
\* MemoryCache: an LRUCache built with max, ttl and updateAgeOnGet: true.
\* An entry of the LRUCache carries the time its age is counted from
\* (start); every drop of a value calls dispose, which counts an eviction.
\* ------------------------------------------------------------------------
LruEntry(key, value, t) == [key |-> key, value |-> value, start |-> t]

\* the entry is past its ttl
Stale(e, t) == t - e.start > TtlMs

\* the entry under key becomes the most recently used one
LruTouch(m, key, e) == Append(MapDelete(m, key), e)

\* LRUCache.get on a present, fresh key: updateAgeOnGet restarts its age
LruGet(m, key, t) ==
  LruTouch(m, key, [m[MapIndex(m, key)] EXCEPT !.start = t])

McDone(nmc, nhit, nmiss, nevict, op) ==
  /\ mc' = nmc
  /\ mcHitCount' = nhit
  /\ mcMissCount' = nmiss
  /\ mcEvictionCount' = nevict
  /\ mcLastOp' = op
  /\ mcGets' = GetsAfter(mcGets, op)

\* get(key): a stale entry is deleted by the LRUCache, which answers
\* undefined
McGet(key) ==
  IF MapHas(mc, key)
    THEN IF Stale(mc[MapIndex(mc, key)], now)
           THEN McDone(MapDelete(mc, key), mcHitCount, mcMissCount + 1,
                       mcEvictionCount + 1,
                       Op("get", key, FALSE, NoValue, ""))
           ELSE McDone(LruGet(mc, key, now), mcHitCount + 1, mcMissCount,
                       mcEvictionCount,
                       Op("get", key, TRUE, MapGet(mc, key), ""))
    ELSE McDone(mc, mcHitCount, mcMissCount + 1, mcEvictionCount,
                Op("get", key, FALSE, NoValue, ""))

\* put(key, new CachedSelector(sel)): LRUCache.set; a replaced value is
\* disposed of, a new key at capacity evicts the least recently used entry
McPut(key, sel) ==
  LET value == StampedSelector(sel, now)
      e == LruEntry(key, value, now)
      evicts == ~MapHas(mc, key) /\ Len(mc) >= MaxSize /\ Len(mc) > 0
      kept == IF evicts THEN Tail(mc) ELSE mc
      dropped == MapHas(mc, key) \/ evicts
  IN  McDone(LruTouch(kept, key, e), mcHitCount, mcMissCount,
             IF dropped THEN mcEvictionCount + 1 ELSE mcEvictionCount,
             Op("put", key, FALSE, value, ""))

\* remove(key): LRUCache.delete
McRemove(key) ==
  LET found == MapHas(mc, key)
  IN  McDone(MapDelete(mc, key), mcHitCount, mcMissCount,
             IF found THEN mcEvictionCount + 1 ELSE mcEvictionCount,
             Op("remove", key, found, NoValue, ""))

\* clearAll(): LRUCache.clear, then the three counters are zeroed
McClearAll ==
  McDone(<<>>, 0, 0, 0, Op("clearAll", "", FALSE, NoValue, ""))

\* updateSuccess(key, success): LRUCache.get, the update in place, and
\* LRUCache.set of the same object, which restarts the age again
McUpdateSuccess(key, success) ==
  IF MapHas(mc, key)
    THEN IF Stale(mc[MapIndex(mc, key)], now)
           THEN McDone(MapDelete(mc, key), mcHitCount, mcMissCount,
                       mcEvictionCount + 1,
                       Op("updateSuccess", key, FALSE, NoValue, ""))
           ELSE LET value == updateSuccess(MapGet(mc, key), success)
                IN  McDone(LruTouch(mc, key, LruEntry(key, value, now)),
                           mcHitCount, mcMissCount, mcEvictionCount,
                           Op("updateSuccess", key, TRUE, value, ""))
    ELSE McDone(mc, mcHitCount, mcMissCount, mcEvictionCount,
                Op("updateSuccess", key, FALSE, NoValue, ""))

\* evictExpired(): LRUCache.purgeStale
McEvictExpired ==
  LET m == SelectSeq(mc, LAMBDA e : ~Stale(e, now))
      deleted == Len(mc) - Len(m)
  IN  McDone(m, mcHitCount, mcMissCount, mcEvictionCount + deleted,
             Op("evictExpired", "", deleted > 0, NoValue, ""))

\* MemoryCache.getMetrics()
McGetMetrics ==
  [hitCount |-> mcHitCount, missCount |-> mcMissCount,
   hitRate |-> HitRate(mcHitCount, mcMissCount), totalEntries |-> Len(mc),
   evictionCount |-> mcEvictionCount]

\* the locator at rest while the backends are exercised on their own
LocatorAtRest ==
  /\ framework = "selenium"
  /\ executionStrategy = "SMART_SEQUENTIAL"
  /\ cache = EmptyCache
  /\ cacheBefore = EmptyCache
  /\ calls = 0
  /\ pc = "idle"
  /\ api = "none"
  /\ request = NoRequest
  /\ cached = NoCached
  /\ first = NoAI
  /\ aiResult = NoAI
  /\ result = NoResult
  /\ error = NoError
  /\ trace = <<>>
  /\ reports = <<>>

InitFileCache ==
  /\ LocatorAtRest /\ ConvertersIdle /\ ServiceIdle /\ NoResolutions
  /\ FileCacheConstructed /\ MemoryCacheConstructed

NextFileCache ==
  \/ \E k \in FcKeys : FcGet(k) /\ UNCHANGED memoryCacheVars
  \/ \E k \in FcKeys, s \in FcSelectors :
       FcPut(k, s) /\ UNCHANGED memoryCacheVars
  \/ \E k \in FcKeys : FcRemove(k) /\ UNCHANGED memoryCacheVars
  \/ FcClearAll /\ UNCHANGED memoryCacheVars
  \/ \E k \in FcKeys, b \in BOOLEAN :
       FcUpdateSuccess(k, b) /\ UNCHANGED memoryCacheVars
  \/ FcEvictExpired /\ UNCHANGED memoryCacheVars
  \/ \E d \in Damages : FcRestart(d) /\ UNCHANGED memoryCacheVars
  \/ Tick

SpecFileCache == InitFileCache /\ [][NextFileCache]_vars

\* a FileCache constructed on a directory whose selectors.json was written
\* by an instance configured with a larger maxSize
InitFileCacheLoaded ==
  LET keys == <<"#a|login", "#b|login", "#c|login">>
      before == [i \in 1..Len(keys) |->
                   [key |-> keys[i], value |-> StampedSelector("#a", 0)]]
      file == Document(before)
      loaded == LoadFromDisk(file, 0)
      op == Op("constructor", "", FALSE, NoValue, loaded.log)
  IN  /\ LocatorAtRest /\ ConvertersIdle /\ ServiceIdle /\ NoResolutions
      /\ MemoryCacheConstructed
      /\ fc = loaded.map
      /\ disk = file
      /\ now = 0
      /\ hitCount = 0
      /\ missCount = 0
      /\ evictionCount = 0
      /\ fcOps = 0
      /\ lastOp = op
      /\ gets = NoGets
      /\ insertOrder = InsertOrderAfter(loaded.map, op)
      /\ intact = TRUE

SpecFileCacheLoaded == InitFileCacheLoaded /\ [][NextFileCache]_vars

\* both backends built with the same maxSize and ttlMs and given the same
\* calls at the same times; remove and updateSuccess are called with one key
InitCaches ==
  /\ LocatorAtRest /\ ConvertersIdle /\ ServiceIdle /\ NoResolutions
  /\ FileCacheConstructed /\ MemoryCacheConstructed

NextCaches ==
  \/ \E k \in FcKeys : FcGet(k) /\ McGet(k)
  \/ \E k \in FcKeys, s \in FcSelectors : FcPut(k, s) /\ McPut(k, s)
  \/ \E k \in {"#a|login"} : FcRemove(k) /\ McRemove(k)
  \/ FcClearAll /\ McClearAll
  \/ \E k \in {"#a|login"}, b \in BOOLEAN :
       FcUpdateSuccess(k, b) /\ McUpdateSuccess(k, b)
  \/ FcEvictExpired /\ McEvictExpired
  \/ Tick

SpecCaches == InitCaches /\ [][NextCaches]_vars

\* both backends given the same put, get and updateSuccess calls at the
\* same times, no put being made once either is at capacity
BelowCapacity == Size(fc) < MaxSize /\ Len(mc) < MaxSize

InitSameCalls ==
  /\ LocatorAtRest /\ ConvertersIdle /\ ServiceIdle /\ NoResolutions
  /\ MemoryCacheConstructed /\ FileCacheConstructed

NextSameCalls ==
  \/ \E k \in FcKeys : FcGet(k) /\ McGet(k)
  \/ \E k \in FcKeys, s \in FcSelectors :
       BelowCapacity /\ FcPut(k, s) /\ McPut(k, s)
  \/ \E k \in FcKeys, b \in BOOLEAN :
       FcUpdateSuccess(k, b) /\ McUpdateSuccess(k, b)
  \/ Tick

SpecSameCalls == InitSameCalls /\ [][NextSameCalls]_vars

\* ------------------------------------------------------------------------
\* Vocabulary of the properties
\* ------------------------------------------------------------------------
AICalls ==
  {i \in DOMAIN trace : trace[i].op \in {"analyzeDOM", "analyzeVisual"}}

\* selector lookups (adapter.findElements or locator.count) made by a stage
Lookups(stage) ==
  {i \in DOMAIN trace : /\ trace[i].op \in {"findElements", "count"}
                        /\ trace[i].stage = stage}

\* selectBestMatchingElement calls made by a stage
Disambiguations(stage) ==
  {i \in DOMAIN trace : /\ trace[i].op = "selectBestMatchingElement"
                        /\ trace[i].stage = stage}

CacheGets == {i \in DOMAIN trace : trace[i].op = "get"}

\* the resolution is past its cache.get, which found an entry / found none
CacheWasHit == \E i \in CacheGets : trace[i].n = 1
CacheWasMissed == \E i \in CacheGets : trace[i].n = 0

\* every key other than the request's holds what it held at the start
OtherKeysUntouched ==
  /\ DOMAIN cacheBefore \subseteq DOMAIN cache
  /\ \A k \in DOMAIN cache :
       k # CacheKey => (k \in DOMAIN cacheBefore /\ cache[k] = cacheBefore[k])

AIStagePcs == {"ai_first", "ai_verify", "ai_fallback", "fe_healed", "pw_healed",
               "fe_healed_disambiguate"}

\* ------------------------------------------------------------------------
\* C1: in findElement, when the original selector matches exactly one
\* element the call returns strategy ORIGINAL_SELECTOR with actualSelector
\* the original selector, no analyzeDOM / analyzeVisual call is made, and
\* the cache differs from what it was only under the request's key, which
\* now holds a fresh entry for the original selector.
\* ------------------------------------------------------------------------
C1_OriginalSingleMatch ==
  (/\ api = "findElement"
   /\ \E i \in Lookups("original") : trace[i].n = 1)
  => /\ pc = "returned"
     /\ result.strategy = "ORIGINAL_SELECTOR"
     /\ result.actualSelector = request.selector
     /\ AICalls = {}
     /\ CacheKey \in DOMAIN cache
     /\ cache[CacheKey] = [selector |-> request.selector, successCount |-> 0,
                           failureCount |-> 0]
     /\ OtherKeysUntouched

\* the single match replaced an entry that held another selector
C1_Witness ==
  /\ api = "findElement"
  /\ pc = "returned"
  /\ \E i \in Lookups("original") : trace[i].n = 1
  /\ CacheKey \in DOMAIN cacheBefore
  /\ cacheBefore[CacheKey].selector # request.selector

\* ------------------------------------------------------------------------
\* C2: in findElement and in find, when the resolution reaches the cache
\* stage and the entry under the request's key has at least one observation
\* and successCount/(successCount+failureCount) <= 0.7 (0.7 included), the
\* cache stage makes no lookup of the cached selector and the AI stage is
\* entered.
\* ------------------------------------------------------------------------
Observed(c) == c.successCount + c.failureCount >= 1

RateAtMost70(c) ==
  10 * c.successCount <= 7 * (c.successCount + c.failureCount)

C2_UntrustedEntryBypassed ==
  (/\ api \in {"findElement", "find"}
   /\ CacheWasHit
   /\ Observed(cached)
   /\ RateAtMost70(cached))
  => /\ Lookups("cache") = {}
     /\ Disambiguations("cache") = {}
     /\ (pc = "ai_first" \/ AICalls # {})

\* an entry at exactly 7 successes out of 10 was bypassed
C2_Witness ==
  /\ api \in {"findElement", "find"}
  /\ CacheWasHit
  /\ cached.successCount = 7
  /\ cached.failureCount = 3
  /\ AICalls # {}

\* the outcome C3 describes
ServedFromCache ==
  /\ pc = "returned"
  /\ result.strategy = "CACHED"
  /\ result.fromCache
  /\ result.actualSelector = cached.selector
  /\ cacheBefore[CacheKey] = cached
  /\ cache[CacheKey] = [cached EXCEPT !.successCount = @ + 1]
  /\ OtherKeysUntouched
  /\ AICalls = {}
  /\ Len(reports) = 1
  /\ reports[1].strategy = "CACHED"
  /\ reports[1].tokensUsed = 0

C4_FailureRecordedBeforeAI ==
  (/\ api = "findElement"
   /\ \E i \in Lookups("cache") : trace[i].n = 0
   /\ pc = "ai_first")
  => cache[CacheKey].failureCount = cached.failureCount + 1

\* ------------------------------------------------------------------------
\* C5: in find, when the trusted cached selector no longer resolves (its
\* count is 0, or any count other than 1), the entry has one more failure
\* throughout the AI stage that follows, and if the call then returns a
\* healed locator the key holds a fresh entry for the healed selector.
\* ------------------------------------------------------------------------
C5_StaleEntryRehealed ==
  (/\ api = "find"
   /\ \E i \in Lookups("cache") : trace[i].n \notin {-1, 1})
  => /\ pc \in AIStagePcs \cup {"thrown", "returned"}
     /\ pc # "returned" =>
          cache[CacheKey] = [cached EXCEPT !.failureCount = @ + 1]
     /\ pc = "returned" =>
          /\ result.strategy \in {"DOM_ANALYSIS", "VISUAL_ANALYSIS"}
          /\ result.actualSelector = aiResult.selector
          /\ cache[CacheKey] = [selector |-> aiResult.selector,
                                successCount |-> 0, failureCount |-> 0]
     /\ OtherKeysUntouched

\* a stale entry was replaced by a selector that is neither the stale one
\* nor the original one
C5_Witness ==
  /\ api = "find"
  /\ pc = "returned"
  /\ \E i \in Lookups("cache") : trace[i].n = 0
  /\ cache[CacheKey].selector # cached.selector
  /\ cache[CacheKey].selector # request.selector


\* ------------------------------------------------------------------------
\* C6 as stated: in findElement, when the original selector matches
\* nothing, the cache misses and the AI stage returns a selector S that
\* matches at least one element, the result has actualSelector S and the
\* strategy of the analysis that produced S, and the key holds a fresh
\* entry (0 successes, 0 failures) for S.
\* ------------------------------------------------------------------------
\* the outcome C6 describes
HealedAndCached ==
  /\ pc = "returned"
  /\ result.actualSelector = aiResult.selector
  /\ result.strategy = aiResult.strategy
  /\ result.strategy \in {"DOM_ANALYSIS", "VISUAL_ANALYSIS"}
  /\ ~result.fromCache
  /\ \E i \in AICalls : /\ trace[i].op = AnalysisOp(result.strategy)
                        /\ trace[i].n = 0
                        /\ trace[i].sel = result.actualSelector
  /\ CacheKey \in DOMAIN cache
  /\ cache[CacheKey] = [selector |-> aiResult.selector, successCount |-> 0,
                        failureCount |-> 0]
  /\ OtherKeysUntouched

C7_NotFoundAfterHealing ==
  (/\ api = "findElement"
   /\ \E i \in Lookups("healed") : trace[i].n = 0)
  => /\ pc = "thrown"
     /\ error.type = "NotFoundAfterAIHealing"
     /\ error.description = request.description
     /\ \E j \in DOMAIN reports : /\ ~reports[j].success
                                  /\ reports[j].description = request.description
     /\ \/ cache = cacheBefore
        \/ /\ CacheKey \in DOMAIN cacheBefore
           /\ cache = [cacheBefore EXCEPT ![CacheKey].failureCount = @ + 1]

\* the healed selector of a fallback analysis matched nothing
C7_Witness ==
  /\ api = "findElement"
  /\ pc = "thrown"
  /\ \E i \in Lookups("healed") : trace[i].n = 0
  /\ Cardinality(AICalls) = 2
  /\ error.description = "login"

C9_FindRecordsAIFailure ==
  (/\ api = "find"
   /\ pc = "thrown"
   /\ error.type = "ServiceError"
   /\ error.origin \in {"analyzeDOM", "analyzeVisual"})
  => /\ Len(reports) = 1
     /\ ~reports[1].success

\* ------------------------------------------------------------------------
\* C10: when the first analysis of a strategy with a fallback throws
\* (analyzeVisual under VISUAL_FIRST, analyzeDOM under SMART_SEQUENTIAL and
\* SEQUENTIAL), the other analysis is never called and the resolution
\* fails; a second analysis is called only after the first one returned a
\* selector that matched no element.
\* ------------------------------------------------------------------------
FirstAICall == CHOOSE i \in AICalls : \A j \in AICalls : i <= j

C10_FirstThrowAborts ==
  /\ (/\ HasFallback(executionStrategy)
      /\ AICalls # {}
      /\ trace[FirstAICall].n = -1)
     => /\ Cardinality(AICalls) = 1
        /\ trace[FirstAICall].op =
             (IF executionStrategy = "VISUAL_FIRST"
                THEN "analyzeVisual" ELSE "analyzeDOM")
        /\ pc = "thrown"
        /\ error.type = "ServiceError"
  /\ Cardinality(AICalls) >= 2
     => /\ trace[FirstAICall].n = 0
        /\ \E i \in Lookups("verify") : /\ trace[i].n = 0
                                        /\ trace[i].sel = trace[FirstAICall].sel
                                        /\ i > FirstAICall

\* analyzeVisual threw under VISUAL_FIRST
C10_Witness ==
  /\ executionStrategy = "VISUAL_FIRST"
  /\ pc = "thrown"
  /\ AICalls # {}
  /\ trace[FirstAICall].op = "analyzeVisual"
  /\ trace[FirstAICall].n = -1

\* ------------------------------------------------------------------------
\* C11: whenever an analyzeDOM or analyzeVisual call throws, as the first
\* or as the fallback sub-attempt of a strategy, the resolution terminates
\* in failure with that AI service error.
\* ------------------------------------------------------------------------
C11_AnyThrowTerminates ==
  \A i \in AICalls :
    trace[i].n = -1 => /\ pc = "thrown"
                       /\ error = ServiceError(trace[i].op)

\* the strategy of the AI stage has returned its selector
AIStageReturned == aiResult # NoAI

\* ------------------------------------------------------------------------
\* C12: under VISUAL_FIRST analyzeVisual is called first; if its selector
\* resolves to at least one element the strategy stops with strategy
\* VISUAL_ANALYSIS and analyzeDOM is not called; otherwise analyzeDOM is
\* called and its selector is returned with strategy DOM_ANALYSIS, without a
\* lookup of that selector inside the strategy.
\* ------------------------------------------------------------------------
C12_VisualFirst ==
  (executionStrategy = "VISUAL_FIRST" /\ AICalls # {})
  => /\ trace[FirstAICall].op = "analyzeVisual"
     /\ AIStageReturned
        => /\ Cardinality(Lookups("verify")) = 1
           /\ \A v \in Lookups("verify") :
                /\ v = FirstAICall + 1
                /\ trace[v].sel = trace[FirstAICall].sel
                /\ trace[v].n > 0
                   => /\ Cardinality(AICalls) = 1
                      /\ aiResult.strategy = "VISUAL_ANALYSIS"
                      /\ aiResult.selector = trace[FirstAICall].sel
                /\ trace[v].n = 0
                   => /\ Cardinality(AICalls) = 2
                      /\ \A i \in AICalls \ {FirstAICall} :
                           /\ i = v + 1
                           /\ trace[i].op = "analyzeDOM"
                           /\ aiResult.strategy = "DOM_ANALYSIS"
                           /\ aiResult.selector = trace[i].sel

\* the calls of the AI stage's strategy, in order: the analyses and the
\* lookup that verifies the first selector
AIStageTrace == SelectSeq(trace, LAMBDA c : c.stage \in {"ai", "verify"})

C14_DomOnly ==
  executionStrategy = "DOM_ONLY"
  => /\ \A i \in AICalls : trace[i].op = "analyzeDOM"
     /\ Cardinality(AICalls) <= 1
     /\ Lookups("verify") = {}
     /\ AIStageReturned
        => /\ Cardinality(AICalls) = 1
           /\ trace[FirstAICall].n = 0
           /\ aiResult.strategy = "DOM_ANALYSIS"
           /\ aiResult.tokensUsed = trace[FirstAICall].tok
           /\ trace[FirstAICall].key # ""
              => aiResult.selector = trace[FirstAICall].key
           /\ FirstAICall < Len(trace)
              => /\ trace[FirstAICall + 1].stage = "healed"
                 /\ trace[FirstAICall + 1].op \in {"findElements", "count"}
                 /\ trace[FirstAICall + 1].sel = aiResult.selector

\* DOM_ONLY healed with a selector no lookup had seen before the caller's
C14_Witness ==
  /\ executionStrategy = "DOM_ONLY"
  /\ pc = "returned"
  /\ Cardinality(AICalls) = 1
  /\ trace[FirstAICall].key = "#c"
  /\ result.actualSelector = "#c"
  /\ result.strategy = "DOM_ANALYSIS"

C16_AICallCounts ==
  AIStageReturned
  => LET made == Cardinality(AICalls)
         ops == {trace[i].op : i \in AICalls}
     IN  /\ executionStrategy = "DOM_ONLY" => made = 1
         /\ executionStrategy \in {"SMART_SEQUENTIAL", "VISUAL_FIRST"}
            => made \in {1, 2}
         /\ executionStrategy \in {"SEQUENTIAL", "PARALLEL"}
            => /\ made = 2
               /\ ops = {"analyzeDOM", "analyzeVisual"}

\* tokens of the analyses among the first n calls of the trace that returned
RECURSIVE ReturnedTokens(_)
ReturnedTokens(n) ==
  IF n = 0
    THEN 0
    ELSE ReturnedTokens(n - 1)
         + (IF n \in AICalls /\ trace[n].n = 0 THEN trace[n].tok ELSE 0)

\* ------------------------------------------------------------------------
\* C17: whatever the execution strategy and the outcome, the tokensUsed of
\* a finished resolution, in its result and in each usage event it recorded,
\* is the sum of the tokensUsed of the analyses that returned during it.
\* ------------------------------------------------------------------------
C17_TokensAreSummed ==
  pc \in {"returned", "thrown"}
  => /\ (pc = "returned" /\ api = "findElement")
        => result.tokensUsed = ReturnedTokens(Len(trace))
     /\ \A r \in DOMAIN reports :
          reports[r].tokensUsed = ReturnedTokens(Len(trace))

\* neither counter of the entry under key k is smaller after the step
CountersKept(k) ==
  /\ cache'[k].successCount >= cache[k].successCount
  /\ cache'[k].failureCount >= cache[k].failureCount

C19_SuccessRate ==
  \A i \in DOMAIN fc :
    LET c == fc[i].value
        r == getCurrentSuccessRate(c)
        total == c.successCount + c.failureCount
    IN  /\ r[2] > 0
        /\ 0 <= r[1] /\ r[1] <= r[2]
        /\ total = 0 => r[1] = r[2]
        /\ total > 0 => r[1] * total = c.successCount * r[2]

\* an entry that has received two successes and one failure: rate 2/3
C19_Witness ==
  \E i \in DOMAIN fc :
    /\ fc[i].value.successCount = 2
    /\ fc[i].value.failureCount = 1
    /\ getCurrentSuccessRate(fc[i].value) = <<2, 3>>

\* the step is a get(key) call
IsGet(key) ==
  /\ fcOps' = fcOps + 1
  /\ lastOp'.op = "get"
  /\ lastOp'.key = key

\* ------------------------------------------------------------------------
\* C20: FileCache.get on a key whose entry is older than the TTL returns
\* undefined, increases missCount and not hitCount, and removes the entry,
\* so that size() is one less; no get returns an entry older than the TTL.
\* ------------------------------------------------------------------------
C20_ExpiredGetIsMiss ==
  [][\A k \in FcKeys :
       IsGet(k)
       => /\ (MapHas(fc, k) /\ now - MapGet(fc, k).timestamp > TtlMs)
             => /\ ~lastOp'.hit
                /\ missCount' = missCount + 1
                /\ hitCount' = hitCount
                /\ ~MapHas(fc', k)
                /\ Size(fc') = Size(fc) - 1
          /\ lastOp'.hit
             => /\ MapHas(fc, k)
                /\ lastOp'.value = MapGet(fc, k)
                /\ now - lastOp'.value.timestamp <= TtlMs]_vars

\* a get has found its entry expired and deleted it, one entry remaining
C20_Witness ==
  /\ lastOp.op = "get"
  /\ lastOp.log = "EXPIRED"
  /\ ~lastOp.hit
  /\ ~MapHas(fc, lastOp.key)
  /\ missCount = 1
  /\ hitCount = 0
  /\ Size(fc) = 1

\* the metrics m agree with the get calls g counted since construction or
\* the last clearAll
MetricsCountGets(m, g) ==
  /\ m.hitCount + m.missCount = g.made
  /\ m.hitCount = g.returned
  /\ m.hitRate[2] > 0
  /\ g.made = 0 => m.hitRate[1] = 0
  /\ g.made > 0 => m.hitRate[1] * g.made = g.returned * m.hitRate[2]

\* ------------------------------------------------------------------------
\* C21: in both cache backends, after any sequence of calls, hitCount +
\* missCount is the number of get calls made since construction or the last
\* clearAll, hitCount is the number of those that returned an entry, and
\* getMetrics().hitRate is hitCount / (hitCount + missCount), or 0 when no
\* get has been made.
\* ------------------------------------------------------------------------
C21_MetricsCountGets ==
  /\ MetricsCountGets(FcGetMetrics, gets)
  /\ MetricsCountGets(McGetMetrics, mcGets)

\* three gets, of which one returned an entry, one found nothing and one
\* found its entry expired in the FileCache
C21_Witness ==
  /\ gets = [made |-> 3, returned |-> 1]
  /\ lastOp.op = "get"
  /\ lastOp.log = "EXPIRED"
  /\ FcGetMetrics.hitRate = <<1, 3>>
  /\ mcGets.made = 3

\* the step is a put(key) call
IsPut(key) ==
  /\ fcOps' = fcOps + 1
  /\ lastOp'.op = "put"
  /\ lastOp'.key = key

\* the keys of the Map m
MapKeys(m) == {m[i].key : i \in DOMAIN m}

\* ------------------------------------------------------------------------
\* C22: when FileCache.put inserts a new key while the cache is at capacity,
\* exactly one entry is evicted, and it is the one whose key was inserted
\* earliest among those present, however recently it was read by get,
\* updated by updateSuccess or overwritten by put.
\* ------------------------------------------------------------------------
C22_EvictsEarliestInserted ==
  [][\A k \in FcKeys :
       (IsPut(k) /\ ~MapHas(fc, k) /\ Size(fc) >= MaxSize)
       => /\ MapKeys(fc') = (MapKeys(fc) \ {insertOrder[1]}) \cup {k}
          /\ Size(fc') = Size(fc)
          /\ evictionCount' = evictionCount + 1]_vars

\* ------------------------------------------------------------------------
\* C23: between two FileCache calls, as long as the writes to disk succeed,
\* selectors.json holds exactly the keys and entries of the in-memory Map
\* (no file at all standing for the empty Map before the first write).
\* ------------------------------------------------------------------------
C23_DiskMirrorsMap ==
  intact => \/ disk = Document(fc)
            \/ disk = NoFile /\ fc = <<>>

\* the step constructs a new FileCache on the directory
IsRestart ==
  /\ fcOps' = fcOps + 1
  /\ lastOp'.op = "constructor"

\* the file is a document as saveToDisk writes it
WrittenByFileCache(file) ==
  /\ file.kind = "document"
  /\ \A i \in DOMAIN file.entries : ~file.entries[i].json.isNull

\* ------------------------------------------------------------------------
\* C24: a FileCache constructed on the document a previous instance wrote
\* holds, for every persisted entry not older than the TTL, an entry under
\* the same key with the same selector, timestamp, successCount and
\* failureCount, and holds nothing else: no entry older than the TTL.
\* ------------------------------------------------------------------------
C24_RestartKeepsFreshEntries ==
  [][(IsRestart /\ WrittenByFileCache(disk) /\ disk' = disk)
     => /\ \A i \in DOMAIN disk.entries :
             LET e == disk.entries[i]
             IN  now - e.json.timestamp <= TtlMs
                 => /\ MapHas(fc', e.key)
                    /\ MapGet(fc', e.key).selector = e.json.selector
                    /\ MapGet(fc', e.key).timestamp = e.json.timestamp
                    /\ MapGet(fc', e.key).successCount = e.json.successCount
                    /\ MapGet(fc', e.key).failureCount = e.json.failureCount
        /\ \A j \in DOMAIN fc' :
             /\ now - fc'[j].value.timestamp <= TtlMs
             /\ \E i \in DOMAIN disk.entries : disk.entries[i].key = fc'[j].key
       ]_vars

\* a restart has dropped an expired entry and kept a fresh one, written
\* earlier than the restart, with its one recorded success
C24_Witness ==
  /\ lastOp.op = "constructor"
  /\ lastOp.log = "Loaded"
  /\ Len(disk.entries) = 2
  /\ Size(fc) = 1
  /\ fc[1].value.successCount = 1
  /\ fc[1].value.timestamp < now

\* ------------------------------------------------------------------------
\* C25: when loading the persisted document fails (unreadable file, invalid
\* JSON, or a malformed entry in an otherwise valid document) the
\* construction still completes and the resulting cache is empty.
\* ------------------------------------------------------------------------
C25_FailedLoadLeavesEmpty ==
  (lastOp.op = "constructor" /\ lastOp.log = "Failed to load")
  => Size(fc) = 0

\* ------------------------------------------------------------------------
\* The selector format translation on its own: a locator expression is
\* turned into the engine format and that back into the display format
\* ------------------------------------------------------------------------
\* argument strings of the expressions, the first MaxArgs of the pool
Args ==
  LET ArgPool == <<"#a", "Log in", "getByX", "a[b", "locator(x">>
  IN  {ArgPool[i] : i \in {j \in 1..Len(ArgPool) : j <= MaxArgs}}

\* methods of the Playwright API the translation recognizes
Methods ==
  [testId |-> "getByTestId", role |-> "getByRole", roleName |-> "getByRole",
   text |-> "getByText", placeholder |-> "getByPlaceholder",
   label |-> "getByLabel", altText |-> "getByAltText",
   title |-> "getByTitle", locator |-> "locator"]

\* accessors that take an options object
WithOptions ==
  {"role", "roleName", "text", "placeholder", "label", "altText", "title"}

Expressions ==
  { e \in [accessor : DOMAIN Methods, quote : Quotes, arg : Args,
           name : Args \cup {""}, option : {"none", "exact"}] :
      /\ (e.name # "") <=> (e.accessor = "roleName")
      /\ (e.option = "exact") => (e.accessor \in WithOptions) }

\* the text of a locator expression, as Locator.toString() gives it after
\* "Locator@"
ApiSyntax(e) ==
  LET q == e.quote
      head == Methods[e.accessor] \o "(" \o q \o e.arg \o q
  IN CASE e.accessor = "roleName" /\ e.option = "none" ->
            head \o ", { name: " \o q \o e.name \o q \o " })"
       [] e.accessor = "roleName" /\ e.option = "exact" ->
            head \o ", { name: " \o q \o e.name \o q \o ", exact: true })"
       [] e.accessor # "roleName" /\ e.option = "exact" ->
            head \o ", { exact: true })"
       [] OTHER -> head \o ")"

\* find(), line 191: the text is turned into the engine format
ToSelectorEngineFormat ==
  /\ convPc = "input"
  /\ engineForm' = convertToSelectorEngineFormat(ApiSyntax(expr))
  /\ convPc' = "engine"
  /\ UNCHANGED <<expr, nativeForm, locatorVars, backendVars, serviceVars,
                 concurrentVars>>

\* find(), lines 226 and 255: the engine format is turned back for display
ToJavaScriptFormat ==
  /\ convPc = "engine"
  /\ nativeForm' = convertToJavaScriptFormat(engineForm)
  /\ convPc' = "native"
  /\ UNCHANGED <<expr, engineForm, locatorVars, backendVars, serviceVars,
                 concurrentVars>>

InitConverters ==
  /\ LocatorAtRest /\ ServiceIdle /\ NoResolutions
  /\ FileCacheConstructed /\ MemoryCacheConstructed
  /\ expr \in Expressions
  /\ convPc = "input"
  /\ engineForm = ""
  /\ nativeForm = ""

NextConverters == ToSelectorEngineFormat \/ ToJavaScriptFormat

SpecConverters == InitConverters /\ [][NextConverters]_vars

\* ------------------------------------------------------------------------
\* GeminiAIService: analyzeDOM / analyzeVisual and makeRequestWithRetry
\* ------------------------------------------------------------------------
\* `maxRetries: number = 3`; both callers leave it out
DefaultMaxRetries == 3

DelayMsConstant(a) == 1000

\* `Math.pow(2, attempt) * 1000`
DelayMs(a) == (2 ^ a) * 1000

AttemptsLeftAlways(a, maxRetries) == TRUE

\* `if (attempt < maxRetries - 1)`
AttemptsLeft(a, maxRetries) == a < maxRetries - 1

\* analyzeDOM / analyzeVisual call makeRequestWithRetry, which enters its
\* loop and posts
Analyze(c) ==
  /\ rqPc = "idle"
  /\ caller' = c
  /\ attempt' = 0
  /\ rqPc' = IF 0 < DefaultMaxRetries THEN "post" ELSE "thrown"
  /\ UNCHANGED <<responses, sleeps, outcome>>
  /\ UNCHANGED <<locatorVars, backendVars, converterVars, concurrentVars>>

\* the POST is answered: the response is returned, or the catch block
\* starts a sleep or rethrows
Post(status) ==
  /\ rqPc = "post"
  /\ responses' = Append(responses, status)
  /\ IF status = 200
       THEN rqPc' = "returned" /\ UNCHANGED sleeps
       ELSE IF status = 429 /\ AttemptsLeft(attempt, DefaultMaxRetries)
         THEN rqPc' = "sleep" /\ sleeps' = Append(sleeps, DelayMs(attempt))
         ELSE rqPc' = "thrown" /\ UNCHANGED sleeps
  /\ UNCHANGED <<caller, attempt, outcome>>
  /\ UNCHANGED <<locatorVars, backendVars, converterVars, concurrentVars>>

\* the sleep is over: `continue`, attempt++, and the loop condition
Wake ==
  /\ rqPc = "sleep"
  /\ attempt' = attempt + 1
  /\ rqPc' = IF attempt + 1 < DefaultMaxRetries THEN "post" ELSE "thrown"
  /\ UNCHANGED <<caller, responses, sleeps, outcome>>
  /\ UNCHANGED <<locatorVars, backendVars, converterVars, concurrentVars>>

\* back in analyzeDOM / analyzeVisual: the response is parsed, or the catch
\* block wraps the error
AnalysisEnds(parsed) ==
  /\ rqPc \in {"returned", "thrown"}
  /\ rqPc' = "done"
  /\ outcome' =
       IF rqPc = "returned" /\ parsed THEN "result"
       ELSE IF rqPc = "thrown" /\ responses # <<>>
               /\ responses[Len(responses)] = 429
         THEN "Rate limit exceeded"
         ELSE IF caller = "analyzeDOM" THEN "AI DOM analysis failed"
                                       ELSE "AI visual analysis failed"
  /\ UNCHANGED <<caller, attempt, responses, sleeps>>
  /\ UNCHANGED <<locatorVars, backendVars, converterVars, concurrentVars>>

InitRetry ==
  /\ LocatorAtRest /\ ConvertersIdle /\ ServiceIdle /\ NoResolutions
  /\ FileCacheConstructed /\ MemoryCacheConstructed

NextRetry ==
  \/ \E c \in {"analyzeDOM", "analyzeVisual"} : Analyze(c)
  \* the HTTP status of the answer; 0 is an error without a response
  \* (timeout, connection refused)
  \/ \E status \in {200, 429, 400, 401, 403, 404, 500, 503, 0} : Post(status)
  \/ Wake
  \/ \E parsed \in BOOLEAN : AnalysisEnds(parsed)

SpecRetry == InitRetry /\ [][NextRetry]_vars

\* every POST is answered and every sleep ends
SpecRetryLive == SpecRetry /\ WF_vars(NextRetry)

\* ------------------------------------------------------------------------
\* Concurrent resolutions: two calls of findElement / find on one instance
\* (e.g. under Promise.all). JavaScript runs each call without interruption
\* from one await to the next, so an action is the code between two awaits;
\* the position of a resolution is the await it is suspended at.
\* ------------------------------------------------------------------------
\* a resolution enters its call; find turns the selector into the engine
\* format; it is suspended at the lookup of the original selector. The
\* instance has one adapter, so its calls are all findElement or all find.
ResolveStart(p, a, selector, description) ==
  /\ procs[p].pc = "idle"
  /\ \A q \in DOMAIN procs : procs[q].api \in {"none", a}
  /\ procs' = [procs EXCEPT ![p] =
                 [api |-> a, pc |-> "original",
                  selector |-> IF a = "find"
                                 THEN convertToSelectorEngineFormat(selector)
                                 ELSE selector,
                  description |-> description, tried |-> "", ai |-> ""]]
  /\ UNCHANGED shared
  /\ UNCHANGED <<locatorVars, backendVars, converterVars, serviceVars>>

\* the lookup of the original selector answered n elements (-1: it threw).
\* Resolved: cacheSuccess and return. Otherwise (find: unless it threw)
\* cache.get; a trusted entry is looked up next, else the AI is asked.
OriginalDone(p, n) ==
  LET r == procs[p]
      key == generateCacheKey(r.selector, r.description)
      resolved == IF r.api = "find" THEN n = 1 ELSE OriginalResolved(n)
      trusted == CacheHas(shared, key) /\ TrustGate(shared[key])
  IN  /\ r.pc = "original"
      /\ shared' = IF resolved
                     THEN cacheSuccess(shared, r.selector, r.description,
                                       r.selector)
                     ELSE shared
      /\ procs' = [procs EXCEPT ![p] =
           IF resolved \/ (r.api = "find" /\ n = -1)
             THEN [r EXCEPT !.pc = "done"]
             ELSE IF trusted
                    THEN [r EXCEPT !.pc = "cached",
                                   !.tried = shared[key].selector]
                    ELSE [r EXCEPT !.pc = "ai"]]
      /\ UNCHANGED <<locatorVars, backendVars, converterVars, serviceVars>>

\* the lookup of the cached selector answered. findElement: elements ->
\* updateSuccess(cacheKey, true) and return, none -> on to the AI, a throw ->
\* updateSuccess(cacheKey, false). find: one -> updateSuccess(cacheKey, true)
\* and return, a throw leaves find, else updateSuccess(cacheKey, false).
CachedDone(p, n) ==
  LET r == procs[p]
      key == generateCacheKey(r.selector, r.description)
      success == IF r.api = "find" THEN n = 1 ELSE n > 0
      silent == IF r.api = "find" THEN n = -1 ELSE n = 0
  IN  /\ r.pc = "cached"
      /\ shared' = IF silent THEN shared
                   ELSE CacheUpdateSuccess(shared, key, success)
      /\ procs' = [procs EXCEPT ![p] =
           IF success \/ (r.api = "find" /\ n = -1)
             THEN [r EXCEPT !.pc = "done"]
             ELSE [r EXCEPT !.pc = "ai"]]
      /\ UNCHANGED <<locatorVars, backendVars, converterVars, serviceVars>>

\* performAIHealingWithTokens returned or threw; the healed selector is
\* looked up next
AIDone(p, out) ==
  LET r == procs[p]
  IN  /\ r.pc = "ai"
      /\ procs' = [procs EXCEPT ![p] =
           IF out.threw
             THEN [r EXCEPT !.pc = "done"]
             ELSE [r EXCEPT !.pc = "healed",
                            !.ai = RecommendedOr(out.recommendedSelector,
                                                 r.selector)]]
      /\ UNCHANGED shared
      /\ UNCHANGED <<locatorVars, backendVars, converterVars, serviceVars>>

\* the lookup of the healed selector answered: resolved -> cacheSuccess
\* with the healed selector; either way the call ends
HealedDone(p, n) ==
  LET r == procs[p]
      resolved == IF r.api = "find" THEN n = 1 ELSE HealedResolved(n)
  IN  /\ r.pc = "healed"
      /\ shared' = IF resolved
                     THEN cacheSuccess(shared, r.selector, r.description, r.ai)
                     ELSE shared
      /\ procs' = [procs EXCEPT ![p] = [r EXCEPT !.pc = "done"]]
      /\ UNCHANGED <<locatorVars, backendVars, converterVars, serviceVars>>

\* two resolutions about to start on a cache that is empty or holds what an
\* earlier healing of 'ns|a' put
InitConcurrent ==
  /\ shared \in {EmptyCache,
                 cacheSuccess(EmptyCache, "ns|a", "x", "#b")}
  /\ procs = [p \in {1, 2} |->
                [api |-> "none", pc |-> "idle", selector |-> "",
                 description |-> "", tried |-> "", ai |-> ""]]
  /\ LocatorAtRest /\ ConvertersIdle /\ ServiceIdle
  /\ FileCacheConstructed /\ MemoryCacheConstructed

\* the requests: the CSS selector 'ns|a' (element a of namespace ns) and
\* the CSS selector 'ns', with descriptions that hold a '|' or none
NextConcurrent ==
  \/ \E p \in DOMAIN procs, a \in {"findElement", "find"},
        rq \in {<<"ns|a", "x">>, <<"ns", "a|x">>} :
       ResolveStart(p, a, rq[1], rq[2])
  \/ \E p \in DOMAIN procs, n \in {-1, 0, 1} : OriginalDone(p, n)
  \/ \E p \in DOMAIN procs, n \in {-1, 0, 1} : CachedDone(p, n)
  \/ \E p \in DOMAIN procs, out \in AIOutcomes : AIDone(p, out)
  \/ \E p \in DOMAIN procs, n \in {-1, 0, 1} : HealedDone(p, n)

SpecConcurrent == InitConcurrent /\ [][NextConcurrent]_vars

\* ------------------------------------------------------------------------
\* C26: MemoryCache and FileCache given the same put, get and updateSuccess
\* calls at the same times, capacity not reached, answer every get alike:
\* an entry is returned by one exactly when it is returned by the other, and
\* only while it is not older than the TTL counted from when it was written,
\* whatever get or updateSuccess calls came in between.
\* ------------------------------------------------------------------------
C26_SameTtlSemantics ==
  [][\A k \in FcKeys :
       IsGet(k)
       => /\ mcLastOp'.hit = lastOp'.hit
          /\ mcLastOp'.hit
             => now - mcLastOp'.value.timestamp <= TtlMs]_vars

\* ------------------------------------------------------------------------
\* C27: for every locator expression x built from a recognized accessor
\* (test-id, role, role with a name, text, placeholder, label, alt-text,
\* title, raw locator with a string literal) with no option other than a
\* bare name, convertToJavaScriptFormat(convertToSelectorEngineFormat(x))
\* is x.
\* ------------------------------------------------------------------------
Translated == convPc = "native"

PlainText(a) == ~Includes(a, "getBy") /\ ~Includes(a, "locator(")

SingleQuotedGetBy ==
  /\ expr.accessor \notin {"locator", "none"}
  /\ expr.option = "none"
  /\ expr.quote = "'"
  /\ PlainText(expr.arg) /\ PlainText(expr.name)
  /\ expr.accessor = "roleName" => ~Includes(expr.arg, "[")

C28_FindManyMatchesResolve ==
  /\ (/\ api = "find"
      /\ \E i \in Lookups("original") : trace[i].n > 1)
     => /\ pc = "returned"
        /\ result.strategy = "ORIGINAL_SELECTOR"
        /\ CacheGets = {}
        /\ AICalls = {}
  /\ (/\ api = "find"
      /\ \E i \in Lookups("healed") : trace[i].n > 1)
     => /\ pc = "returned"
        /\ CacheKey \in DOMAIN cache
        /\ cache[CacheKey].selector = aiResult.selector

\* ------------------------------------------------------------------------
\* C29: in find, a selector search that throws, at the original, the cached
\* or the healed selector, is treated as zero matches: the resolution goes
\* on to the next stage, and the error of the search is never the error the
\* caller gets.
\* ------------------------------------------------------------------------
SearchThrew(stage) == \E i \in Lookups(stage) : trace[i].n = -1

C29_FindSwallowsSearchErrors ==
  api = "find"
  => /\ pc = "thrown" => error.origin # "count"
     /\ SearchThrew("original") => CacheGets # {}
     /\ SearchThrew("cache") => (pc = "ai_first" \/ AICalls # {})

\* ------------------------------------------------------------------------
\* C30: within one findElement or find call the stages run in the order
\* original-selector lookup, cache get, cached-selector lookup, AI analysis,
\* healed-selector lookup, cache put: every call of the resolution is made
\* after those of the earlier stages, no analysis is made before the
\* original selector was tried and the cache consulted, and nothing follows
\* the stage that produced the result.
\* ------------------------------------------------------------------------
StageRank(c) ==
  CASE c.op = "put"                                            -> 6
    [] c.op = "get"                                            -> 2
    [] c.op \in {"analyzeDOM", "analyzeVisual"}                -> 4
    [] c.stage = "verify"                                      -> 4
    [] c.stage = "original"                                    -> 1
    [] c.stage = "cache"                                       -> 3
    [] c.stage = "healed"                                      -> 5

CachePuts == {i \in DOMAIN trace : trace[i].op = "put"}

C30_StagesInOrder ==
  trace # <<>>
  => /\ \A i \in 1..(Len(trace) - 1) :
          StageRank(trace[i]) <= StageRank(trace[i + 1])
     /\ AICalls # {}
        => /\ \E j \in Lookups("original") : j < FirstAICall
           /\ \E j \in CacheGets : j < FirstAICall
     /\ \A i \in CachePuts : i = Len(trace) /\ pc = "returned"
     /\ (pc = "returned" /\ result.strategy = "ORIGINAL_SELECTOR")
        => CacheGets = {} /\ AICalls = {}
     /\ (pc = "returned" /\ result.strategy = "CACHED")
        => AICalls = {} /\ CachePuts = {}

\* a resolution that went through all six stages
C30_Witness ==
  /\ pc = "returned"
  /\ Lookups("original") # {}
  /\ CacheGets # {}
  /\ Lookups("cache") # {}
  /\ AICalls # {}
  /\ Lookups("healed") # {}
  /\ CachePuts # {}

\* ------------------------------------------------------------------------
\* C31: makeRequestWithRetry always terminates, returning a response or
\* throwing, after at most maxRetries (3) POST attempts, even when every
\* attempt is answered with HTTP 429; after the last allowed attempt fails
\* with 429 the error is thrown without another sleep.
\* ------------------------------------------------------------------------
RequestEnded == rqPc \in {"returned", "thrown", "done"}

C31_RetryTerminates ==
  /\ (rqPc = "post") ~> RequestEnded
  /\ [](Len(responses) <= DefaultMaxRetries)
  /\ [](Len(sleeps) < DefaultMaxRetries)
  /\ []((rqPc = "thrown" /\ Len(responses) = DefaultMaxRetries)
          => Len(sleeps) = DefaultMaxRetries - 1)

\* every attempt was answered with 429
C31_Witness ==
  /\ rqPc = "thrown"
  /\ responses = <<429, 429, 429>>
  /\ sleeps = <<1000, 2000>>

\* ------------------------------------------------------------------------
\* C32: in makeRequestWithRetry a new attempt is made only after the
\* previous one failed with HTTP 429: an attempt failing with any other
\* error is rethrown at once, and the wait before attempt k+1 (k from 1) is
\* 2^(k-1) seconds.
\* ------------------------------------------------------------------------
C32_RetryOnlyOn429 ==
  /\ \A i \in 1..(Len(responses) - 1) : responses[i] = 429
  /\ (responses # <<>> /\ responses[Len(responses)] \notin {200, 429})
     => rqPc \in {"thrown", "done"} /\ Len(sleeps) = Len(responses) - 1
  /\ Len(responses) >= 1 => Len(sleeps) >= Len(responses) - 1
  /\ \A k \in DOMAIN sleeps : sleeps[k] = (2 ^ (k - 1)) * 1000

\* the third attempt, made after two 429 answers, failed with a 500
C32_Witness ==
  /\ responses = <<429, 429, 500>>
  /\ sleeps = <<1000, 2000>>
  /\ outcome = "AI DOM analysis failed"

\* ------------------------------------------------------------------------
\* C33: two locator expressions handed to find that differ only in options
\* beyond a bare name (getByText('x') and getByText('x', { exact: true }))
\* get the same selector-engine string and so, with the same description,
\* the same cache key: the entry healed for one is the entry the other
\* finds.
\* ------------------------------------------------------------------------
WithoutOptions(e) == [e EXCEPT !.option = "none"]

C33_OptionsShareCacheKey ==
  (convPc # "input" /\ expr.quote = "'")
  => \A d \in Descriptions :
       generateCacheKey(engineForm, d) =
         generateCacheKey(
           convertToSelectorEngineFormat(ApiSyntax(WithoutOptions(expr))), d)

\* ------------------------------------------------------------------------
\* C34: in every reachable state of a FileCache, also right after it was
\* constructed on an existing cache file and after any put, remove,
\* updateSuccess, get and evictExpired calls, size() <= maxSize.
\* ------------------------------------------------------------------------
C34_SizeWithinMaxSize == Size(fc) <= MaxSize

\* ------------------------------------------------------------------------
\* C35: FileCache.put on a key already present only replaces that key's
\* entry: every other key present before is present afterwards with its
\* entry unchanged, size() is unchanged and evictionCount is unchanged,
\* whether or not the cache is at capacity.
\* ------------------------------------------------------------------------
C35_PutOverwritesInPlace ==
  [][\A key \in FcKeys :
       (IsPut(key) /\ MapHas(fc, key))
       => /\ \A k \in MapKeys(fc) \ {key} :
               MapHas(fc', k) /\ MapGet(fc', k) = MapGet(fc, k)
          /\ Size(fc') = Size(fc)
          /\ evictionCount' = evictionCount]_vars


\* ------------------------------------------------------------------------
\* C38: every usage event of the call in flight whose strategy is
\* DOM_ANALYSIS or VISUAL_ANALYSIS, failure events included, names an
\* analysis that the call has started (analyzeDOM for DOM_ANALYSIS,
\* analyzeVisual for VISUAL_ANALYSIS), under every execution strategy
\* ------------------------------------------------------------------------
C38_ReportedStrategyWasStarted ==
  \A j \in DOMAIN reports :
    reports[j].strategy \in {"DOM_ANALYSIS", "VISUAL_ANALYSIS"}
    => \E i \in AICalls : trace[i].op = AnalysisOp(reports[j].strategy)


\* ------------------------------------------------------------------------
\* C36: two requests in flight whose (normalized selector, description)
\* pairs differ have different cache keys, also when a selector or a
\* description holds the character '|'
\* ------------------------------------------------------------------------
Started(p) == procs[p].api # "none"

SamePair(p, q) ==
  /\ procs[p].selector = procs[q].selector
  /\ procs[p].description = procs[q].description

KeyOf(p) == generateCacheKey(procs[p].selector, procs[p].description)

C36_CacheKeyInjective ==
  \A p, q \in DOMAIN procs :
    (Started(p) /\ Started(q) /\ ~SamePair(p, q)) => KeyOf(p) # KeyOf(q)

\* ------------------------------------------------------------------------
\* C37: resolutions of one (selector, description) interleave on the shared
\* cache: when the cache stage of a resolution ends with an updateSuccess,
\* the entry that is updated holds the selector this resolution looked up,
\* and the update adds exactly one observation to that entry's counters
\* ------------------------------------------------------------------------
C37_UpdateCreditsAttemptedEntry ==
  [][\A p \in DOMAIN procs :
       (/\ procs[p].pc = "cached"
        /\ procs'[p].pc # "cached"
        /\ shared' # shared
        /\ \A q \in DOMAIN procs : Started(q) => SamePair(p, q))
       => /\ CacheHas(shared, KeyOf(p))
          /\ shared[KeyOf(p)].selector = procs[p].tried
          /\ shared'[KeyOf(p)].selector = procs[p].tried
          /\ shared'[KeyOf(p)].successCount + shared'[KeyOf(p)].failureCount
             = shared[KeyOf(p)].successCount + shared[KeyOf(p)].failureCount + 1]_vars

====
